---- MODULE Spec2Model ----
\* A model of the swarmkit fork:
\*   - the dispatcher's assignmentSet (SpecAssign, SpecShared, SpecIgnored,
\*     SpecIsolated, SpecTasks) and the agent its messages reach (SpecSent),
\*   - the store's peer-group / service name-space (SpecStore), its
\*     transactions and watch queue (SpecWatch) and its finders (SpecFind),
\*   - the static orchestrator's Run, one store transaction per step (SpecOrch,
\*     SpecCluster), with the service writers alone (SpecRace), and its Stop
\*     (SpecStop, SpecStopOnce),
\*   - orchestrator.IsTaskDirty, NewTask and the task ordering (SpecDirty,
\*     SpecNewTask, SpecLess),
\*   - the control API for tasks, certificate authorities and peer groups
\*     (SpecCreateTask, SpecControl).
\* Each specification works on the variables of its subsystem; the variables
\* of the other subsystems stay at their initial values.
EXTENDS Integers, Sequences, FiniteSets, TLC

VARIABLES
    \* ---- dispatcher.assignmentSet ----
    tasksMap,              \* map[string]*api.Task
    tasksUsingDependency,  \* map[typeAndID]map[string]struct{}
    changes,               \* map[typeAndID]*api.AssignmentChange
    rstore,                \* the store contents seen through the caller's ReadTx
    lastCall,              \* observation of the last call: operation, argument, results
    ncalls,                \* number of calls made on the assignment set
    panicked               \* TRUE once a call has faulted (nil dereference / index out of range)

avars == <<tasksMap, tasksUsingDependency, changes, rstore, lastCall, ncalls, panicked>>

VARIABLES
    \* ---- store: the service and peer-group tables ----
    serviceTable,          \* table "service": id -> object
    peerGroupTable,        \* table "peer_group": id -> object
    lastOp                 \* observation of the last store.Update: operation, error, events

svars == <<serviceTable, peerGroupTable, lastOp>>

VARIABLES
    \* ---- static orchestrator and the store tables it works on ----
    storeServices,         \* store table "service": id -> service
    storeTasks,            \* store table "task": id -> task
    storeNodes,            \* store table "node": the node ids
    storeCluster,          \* the default cluster object, or the nil cluster
    deletedServices,       \* ids of services deleted so far (ids are never reused)
    watch,                 \* events committed but not yet received by the watcher
    pc,                    \* position of Run: the store transaction or select it is about to do
    services,              \* o.services
    servicesByNodeID,      \* o.servicesByNodeID
    restartTasks,          \* o.restartTasks
    cluster,               \* o.cluster
    nextID,                \* number of ids identity.NewID has handed out
    nwrites,               \* number of writes by other components
    restarts               \* tasks the last tickTasks handed to restarts.Restart

ovars == <<storeServices, storeTasks, storeNodes, storeCluster, deletedServices,
           watch, pc, services, servicesByNodeID, restartTasks, cluster,
           nextID, nwrites, restarts>>

VARIABLES
    \* ---- a call of a function of the orchestrator or control API ----
    pin,                   \* the function called and its arguments
    pout                   \* what the call returned, once it has returned

fvars == <<pin, pout>>

VARIABLES
    \* ---- MemoryStore.Update and the watch queue ----
    txs,                   \* writer -> its Update: position, changelist, events published
    updateLock,            \* the writer holding the store's update lock, or "free"
    commitLog,             \* the events of the committed transactions, in commit order
    subs,                  \* subscriber -> events buffered for it and events it received
    ntx                    \* number of Update transactions begun

wvars == <<txs, updateLock, commitLog, subs, ntx>>

VARIABLES
    \* ---- Orchestrator.Stop ----
    stopChan,              \* o.stopChan: "open" or "closed"
    doneChan,              \* o.doneChan: "open" or "closed"
    stopPc                 \* position of each caller of Stop

pvars == <<stopChan, doneChan, stopPc>>

VARIABLES
    \* ---- the agent at the other end of the dispatcher's session ----
    agentDeps              \* keys of the secrets and configs the messages sent so far gave it

VARIABLES
    \* ---- Run, between the store transactions of one call ----
    reconcileView,         \* reconcileServices: the ids passed, the tables as its View read them
    nodeTasks              \* foreachTaskFromNode: the node and the tasks its View found

gvars == <<agentDeps, reconcileView, nodeTasks>>

\* The variables other than those of the static orchestrator and of Run's
\* calls under way.
nonRun == <<avars, svars, fvars, wvars, pvars, agentDeps>>

vars == <<avars, svars, ovars, fvars, wvars, pvars, gvars>>

\* The variables the assignment set does not touch.
nonAssign == <<svars, ovars, fvars, wvars, pvars, gvars>>

\* The variables the name-space operations of the store do not touch.
nonStore == <<avars, ovars, fvars, wvars, pvars, gvars>>

\* The variables the static orchestrator does not touch.
nonOrch == <<avars, svars, fvars, wvars, pvars, gvars>>

\* The writers and subscribers of the store.
Writers == {"w1", "w2"}

Subscribers == {"orchestrator", "dispatcher"}

\* No Update is under way and nothing was ever published.
\* Callers of Orchestrator.Stop.
Stoppers == {"a", "b"}

\* Stop has not been called: both channels are open.
StopIdle ==
    /\ stopChan = "open"
    /\ doneChan = "open"
    /\ stopPc = [c \in Stoppers |-> "idle"]

\* No message has been sent to the agent.
AgentIdle == agentDeps = {}

\* reconcileServices has not been called; next is where Run goes on after it.
NoView == [ids |-> <<>>, services |-> <<>>, tasks |-> <<>>, next |-> "recv"]

\* foreachTaskFromNode has not been called.
NoNodeTasks == [node |-> "", tasks |-> <<>>]

ReconcileIdle == reconcileView = NoView /\ nodeTasks = NoNodeTasks

WatchIdle ==
    /\ txs = [w \in Writers |-> [pc |-> "idle", changelist |-> <<>>, next |-> 1]]
    /\ updateLock = "free"
    /\ commitLog = <<>>
    /\ subs = [sub \in Subscribers |-> [buf |-> <<>>, recv |-> <<>>]]
    /\ ntx = 0

\* No function call is under way.
FnIdle ==
    /\ pin = [fn |-> "none"]
    /\ pout = [done |-> FALSE]

----------------------------------------------------------------------------
\* Generic map helpers (Go maps: a missing key reads as the zero value).

Put(m, k, v) == [x \in (DOMAIN m) \cup {k} |-> IF x = k THEN v ELSE m[x]]

Del(m, k) == [x \in (DOMAIN m) \ {k} |-> m[x]]

EmptyMap == [x \in {} |-> {}]

----------------------------------------------------------------------------
\* api.TaskState: the ordered chain of task states.

TaskStateChain ==
    <<"NEW", "PENDING", "ASSIGNED", "ACCEPTED", "PREPARING", "READY", "STARTING",
      "RUNNING", "COMPLETED", "SHUTDOWN", "FAILED", "REJECTED", "REMOVE", "ORPHANED">>

StateRank(s) == CHOOSE i \in 1..Len(TaskStateChain) : TaskStateChain[i] = s

StateLT(a, b) == StateRank(a) < StateRank(b)

StateLE(a, b) == StateRank(a) <= StateRank(b)

NoOp == [op |-> "none", id |-> "", name |-> <<>>, err |-> "none", events |-> <<>>]

\* The tables and the observation while the store is not exercised.
StoreIdle ==
    /\ serviceTable = EmptyMap
    /\ peerGroupTable = EmptyMap
    /\ lastOp = NoOp

\* The orchestrator and its store tables while they are not exercised.
OrchIdle ==
    /\ storeServices = EmptyMap
    /\ storeTasks = EmptyMap
    /\ storeNodes = {}
    /\ storeCluster = [ID |-> "nil", Version |-> 0, LogDriver |-> "nil"]
    /\ deletedServices = {}
    /\ watch = <<>>
    /\ pc = "init"
    /\ services = EmptyMap
    /\ servicesByNodeID = EmptyMap
    /\ restartTasks = {}
    /\ cluster = [ID |-> "nil", Version |-> 0, LogDriver |-> "nil"]
    /\ nextID = 0
    /\ nwrites = 0
    /\ restarts = <<>>

----------------------------------------------------------------------------
\* ---- Assignment engine: data ----

\* typeAndID
Key(ty, id) == [objType |-> ty, id |-> id]

\* The task ids of the catalogue, those one dispatcher session is driven with
\* under SpecAssign, and those of a session with three tasks sharing their
\* dependencies (SpecShared).
TaskIDs == {"t1", "t2", "t3", "t4"}

AssignTaskIDs == {"t1", "t2"}

SharedTaskIDs == {"t1", "t2", "t4"}

\* fmt.Sprintf("%s-peer-group", task.ID)
PeerGroupConfigID(taskID) == taskID \o "-peer-group"

\* fmt.Sprintf("%s-%s-issue-{ca,key,cert}", task.ID, caID)
CertConfigID(taskID, caID, part) == taskID \o "-" \o caID \o "-issue-" \o part

\* GetCertificateIssuanceConfigRefs: three config ids per requested issuance.
RECURSIVE CertIssuanceConfigIDs(_, _, _)
CertIssuanceConfigIDs(taskID, issuances, i) ==
    IF i > Len(issuances) THEN <<>>
    ELSE <<CertConfigID(taskID, issuances[i], "ca"),
           CertConfigID(taskID, issuances[i], "key"),
           CertConfigID(taskID, issuances[i], "cert")>>
         \o CertIssuanceConfigIDs(taskID, issuances, i + 1)

\* The task specs of the catalogue. Task.Spec is immutable after creation, so
\* the spec is a function of the task id.
\*   t1, t4: stand-alone container tasks using secret x and config c
\*   t2: container task using secret x, and config c / an invalid reference
\*       through Spec.ResourceReferences
\*   t3: the task of static service s1, with a certificate issuance from ca1
TaskSpecOf(id) ==
    CASE id = "t2" ->
           [HasContainer |-> TRUE,
            ResourceReferences |-> <<[ResourceType |-> "CONFIG", ResourceID |-> "c"],
                                     [ResourceType |-> "TASK", ResourceID |-> "t1"]>>,
            Secrets |-> <<"x">>, Configs |-> <<>>, CertificateIssuances |-> <<>>]
      [] id = "t3" ->
           [HasContainer |-> TRUE, ResourceReferences |-> <<>>,
            Secrets |-> <<>>, Configs |-> <<>>, CertificateIssuances |-> <<"ca1">>]
      [] OTHER ->
           [HasContainer |-> TRUE, ResourceReferences |-> <<>>,
            Secrets |-> <<"x">>, Configs |-> <<"c">>, CertificateIssuances |-> <<>>]

ServiceIDOf(id) == IF id = "t3" THEN "s1" ELSE ""

\* orchestrator.NewTask, lines 52-57: the materialized config references of a
\* new task: the peer-group reference when the service carries StaticInfo, then
\* the certificate-issuance references.
NewTaskMaterializedConfigs(taskID, spec, hasStaticInfo) ==
    (IF hasStaticInfo THEN <<PeerGroupConfigID(taskID)>> ELSE <<>>)
    \o (IF spec.HasContainer
        THEN CertIssuanceConfigIDs(taskID, spec.CertificateIssuances, 1)
        ELSE <<>>)

\* static Orchestrator.addTask, line 342: the orchestrator appends the
\* peer-group reference to what NewTask built.
AddTaskMaterializedConfigs(taskID, spec, hasStaticInfo) ==
    NewTaskMaterializedConfigs(taskID, spec, hasStaticInfo)
    \o <<PeerGroupConfigID(taskID)>>

\* The task with id `id` as the dispatcher receives it from the store, in
\* status state `st` and desired state `ds`. Tasks of static services are the
\* ones the static orchestrator created; the others carry no service.
AssignTask(id, st, ds) ==
    [ID |-> id,
     ServiceID |-> ServiceIDOf(id),
     Status |-> [State |-> st],
     DesiredState |-> ds,
     Spec |-> TaskSpecOf(id),
     MaterializedConfigs |->
        IF ServiceIDOf(id) = "" THEN NewTaskMaterializedConfigs(id, TaskSpecOf(id), FALSE)
        ELSE AddTaskMaterializedConfigs(id, TaskSpecOf(id), TRUE)]

\* equality.TasksEqualStable: equality of two tasks ignoring Status (and Meta).
TasksEqualStable(a, b) ==
    [a EXCEPT !.Status = [State |-> "NEW"]] = [b EXCEPT !.Status = [State |-> "NEW"]]

\* An AssignmentChange: the action and the assignment item it carries.
\* A minimal item carries only the id.
Change(action, ty, id, minimal, data) ==
    [Action |-> action, Type |-> ty, ID |-> id, Minimal |-> minimal, Data |-> data]

\* The state an assignmentSet method works on, threaded through the helpers:
\* the two maps the helpers write, the REMOVE and Update writes of the call in
\* order, and whether the call has faulted.
ASet(tud, chg) ==
    [tud |-> tud, changes |-> chg, removes |-> <<>>, updates |-> <<>>, panicked |-> FALSE]

\* len(a.tasksUsingDependency[mapKey]): a missing key reads as the nil map.
Users(tud, k) == IF k \in DOMAIN tud THEN tud[k] ELSE {}

\* Mutant of AddUser: only the first user of a dependency is recorded.
AddUser_FirstOnly(a, k, taskID) ==
    IF Users(a.tud, k) = {} THEN [a EXCEPT !.tud = Put(a.tud, k, {taskID})] ELSE a

\* a.tasksUsingDependency[mapKey][t.ID] = struct{}{}
AddUser(a, k, taskID) ==
    [a EXCEPT !.tud = Put(a.tud, k, Users(a.tud, k) \cup {taskID})]

\* a.changes[mapKey] = &api.AssignmentChange{..., Action: Update}
WriteUpdate(a, k, data) ==
    [a EXCEPT !.changes = Put(a.changes, k, Change("Update", k.objType, k.id, FALSE, data)),
              !.updates = Append(a.updates, k)]

\* a.changes[mapKey] = &api.AssignmentChange{Assignment: <id only>, Action: Remove}
WriteRemove(a, k) ==
    [a EXCEPT !.changes = Put(a.changes, k,
                              Change("Remove", k.objType, k.id, TRUE, [kind |-> "id"])),
              !.removes = Append(a.removes, k)]

\* assignmentSet.secret: the secret from the store, or its value from the
\* secret driver when Spec.Driver is set. Driver "none": a stored secret;
\* "good": the driver returns a valid payload; "bad": NewSecretDriver, Get or
\* ValidateSecretPayload fails.
secret(st, secretID) ==
    IF secretID \notin DOMAIN st.secrets THEN [ok |-> FALSE]
    ELSE IF st.secrets[secretID].Driver = "none"
         THEN [ok |-> TRUE, data |-> [kind |-> "secret", source |-> "store"]]
    ELSE IF st.secrets[secretID].Driver = "good"
         THEN [ok |-> TRUE, data |-> [kind |-> "secret", source |-> "driver"]]
    ELSE [ok |-> FALSE]

assignSecret(a, st, mapKey) ==
    LET a1 == [a EXCEPT !.tud = Put(a.tud, mapKey, {})]
        r == secret(st, mapKey.id)
    IN  IF r.ok THEN WriteUpdate(a1, mapKey, r.data) ELSE a1

assignConfig(a, st, mapKey) ==
    LET a1 == [a EXCEPT !.tud = Put(a.tud, mapKey, {})]
    IN  IF mapKey.id \in st.configs
        THEN WriteUpdate(a1, mapKey, [kind |-> "config", source |-> "store"])
        ELSE a1

\* addTaskDependencies, lines 85-101: Spec.ResourceReferences.
RECURSIVE AddResourceReferences(_, _, _, _, _)
AddResourceReferences(a, st, taskID, refs, i) ==
    IF i > Len(refs) THEN a
    ELSE LET r == refs[i]
             mapKey == Key(r.ResourceType, r.ResourceID)
             first == Users(a.tud, mapKey) = {}
             a1 == IF first /\ r.ResourceType = "SECRET" THEN assignSecret(a, st, mapKey)
                   ELSE IF first /\ r.ResourceType = "CONFIG" THEN assignConfig(a, st, mapKey)
                   ELSE a
             a2 == IF first /\ r.ResourceType \notin {"SECRET", "CONFIG"}
                   THEN a   \* invalid resource type: continue
                   ELSE AddUser(a1, mapKey, taskID)
         IN  AddResourceReferences(a2, st, taskID, refs, i + 1)

\* addTaskDependencies, lines 109-117: container.Secrets.
RECURSIVE AddSecrets(_, _, _, _, _)
AddSecrets(a, st, taskID, ids, i) ==
    IF i > Len(ids) THEN a
    ELSE LET mapKey == Key("SECRET", ids[i])
             a1 == IF Users(a.tud, mapKey) = {} THEN assignSecret(a, st, mapKey) ELSE a
         IN  AddSecrets(AddUser(a1, mapKey, taskID), st, taskID, ids, i + 1)

\* addTaskDependencies, lines 123-131: container.Configs.
RECURSIVE AddConfigs(_, _, _, _, _)
AddConfigs(a, st, taskID, ids, i) ==
    IF i > Len(ids) THEN a
    ELSE LET mapKey == Key("CONFIG", ids[i])
             a1 == IF Users(a.tud, mapKey) = {} THEN assignConfig(a, st, mapKey) ELSE a
         IN  AddConfigs(AddUser(a1, mapKey, taskID), st, taskID, ids, i + 1)

\* One of the three materialized configs of a certificate issuance
\* (lines 350-408): written once for its first user.
AddIssuedConfig(a, taskID, caID, part) ==
    LET mapKey == Key("CONFIG", CertConfigID(taskID, caID, part))
        a1 == IF Users(a.tud, mapKey) = {}
              THEN WriteUpdate([a EXCEPT !.tud = Put(a.tud, mapKey, {})], mapKey,
                               [kind |-> "cert", part |-> part, ca |-> caID])
              ELSE a
    IN  AddUser(a1, mapKey, taskID)

\* addCertIssuanceDependencies: nothing is added when the CA is missing from
\* the store or the root CA / CSR / signature cannot be produced from it.
addCertIssuanceDependencies(a, st, taskID, caID) ==
    IF caID \notin DOMAIN st.cas THEN a
    ELSE IF ~st.cas[caID].Valid THEN a
    ELSE AddIssuedConfig(AddIssuedConfig(AddIssuedConfig(a, taskID, caID, "ca"),
                                         taskID, caID, "key"),
                         taskID, caID, "cert")

RECURSIVE AddCertIssuances(_, _, _, _, _)
AddCertIssuances(a, st, taskID, issuances, i) ==
    IF i > Len(issuances) THEN a
    ELSE AddCertIssuances(addCertIssuanceDependencies(a, st, taskID, issuances[i]),
                          st, taskID, issuances, i + 1)

\* deCIDR: ip.String() of the address net.ParseCIDR reads; an address
\* net.ParseCIDR rejects is returned as it is. An address is a sequence of
\* fields, the prefix length separated from the ip by "/". ParseCIDR accepts
\* ip "/" n when ip reads as an IPv4 address and n is a decimal number of at
\* most 32, or ip reads as an IPv6 address and n is at most 128; ip.String()
\* is the canonical text of the address (an IPv6 address in lower case). The
\* texts that read as addresses and as numbers are those of the tables.
deCIDR(addressWithCIDR) ==
    LET IPv4String == [ip \in {"10.0.0.1", "10.0.0.2", "10.0.0.3", "10.0.0.4",
                               "192.168.0.1", "172.16.0.1"} |-> ip]
        IPv6String == ("2001:DB8::1" :> "2001:db8::1") @@ ("2001:db8::1" :> "2001:db8::1")
                      @@ ("FE80::1" :> "fe80::1") @@ ("fe80::1" :> "fe80::1")
                      @@ ("::1" :> "::1")
        dtoi == ("0" :> 0) @@ ("8" :> 8) @@ ("16" :> 16) @@ ("24" :> 24)
                @@ ("32" :> 32) @@ ("33" :> 33) @@ ("34" :> 34) @@ ("64" :> 64)
                @@ ("128" :> 128) @@ ("129" :> 129)
        shaped == Len(addressWithCIDR) = 3 /\ addressWithCIDR[2] = "/"
        ip == addressWithCIDR[1]
        mask == addressWithCIDR[3]
    IN  IF ~shaped THEN addressWithCIDR
        ELSE IF mask \notin DOMAIN dtoi THEN addressWithCIDR
        ELSE IF ip \in DOMAIN IPv4String /\ dtoi[mask] <= 32 THEN <<IPv4String[ip]>>
        ELSE IF ip \notin DOMAIN IPv4String /\ ip \in DOMAIN IPv6String /\ dtoi[mask] <= 128
        THEN <<IPv6String[ip]>>
        ELSE addressWithCIDR

\* service.StaticInfo.NetworkAttachment.Addresses[0] can be evaluated.
HasFirstAddress(svc) ==
    svc.HasStaticInfo /\ svc.HasAttachment /\ Len(svc.Addresses) > 0

\* store.FindServices(readTx, store.ByPeerGroup(peerGroup)): the error of the
\* find and the services found. The store's find fails only when the table's
\* checkType rejects the selector (ErrInvalidFindBy); the service table serves
\* the peer-group selector, so the error is nil and the services are the
\* static services of the peer group.
FindServicesByPeerGroup(st, peerGroup) ==
    [err |-> "nil",
     ids |-> {id \in DOMAIN st.services :
                 st.services[id].Static /\ st.services[id].PeerGroup = peerGroup}]

\* maybeAddStaticServiceDependencies: the peer-group config of a task of a
\* static service. A failed find of the peer services is logged and the call
\* returns without a config. The call faults when it dereferences a missing
\* StaticInfo, a missing NetworkAttachment or an empty address list.
maybeAddStaticServiceDependencies(a, st, t) ==
    IF t.ServiceID = "" THEN a
    ELSE IF t.ServiceID \notin DOMAIN st.services THEN a
    ELSE IF ~st.services[t.ServiceID].Static THEN a
    ELSE IF FindServicesByPeerGroup(st, st.services[t.ServiceID].PeerGroup).err # "nil" THEN a
    ELSE
      LET service == st.services[t.ServiceID]
          peerServices == FindServicesByPeerGroup(st, service.PeerGroup)
          peers == peerServices.ids \ {service.ID}
          \* line 181 dereferences service.StaticInfo for every peer
          loopFault ==
              peers # {} /\
              (~service.HasStaticInfo
               \/ (service.HasAttachment /\
                   \E p \in peers : ~HasFirstAddress(st.services[p])))
          peerAddrs ==
              IF service.HasStaticInfo /\ service.HasAttachment
              THEN {<<st.services[p].Name, deCIDR(st.services[p].Addresses[1])>> : p \in peers}
              ELSE {}
          selfFault == ~HasFirstAddress(service)
          mapKey == Key("CONFIG", PeerGroupConfigID(t.ID))
      IN  IF loopFault \/ selfFault THEN [a EXCEPT !.panicked = TRUE]
          ELSE LET a1 == IF Users(a.tud, mapKey) = {}
                         THEN WriteUpdate([a EXCEPT !.tud = Put(a.tud, mapKey, {})], mapKey,
                                          [kind |-> "peergroup",
                                           selfName |-> service.Name,
                                           selfAddr |-> deCIDR(service.Addresses[1]),
                                           peers |-> peerAddrs])
                         ELSE a
               IN  AddUser(a1, mapKey, t.ID)

\* assignmentSet.addTaskDependencies
addTaskDependencies(a, st, t) ==
    LET a1 == AddResourceReferences(a, st, t.ID, t.Spec.ResourceReferences, 1)
        a2 == IF t.Spec.HasContainer THEN AddSecrets(a1, st, t.ID, t.Spec.Secrets, 1) ELSE a1
        a3 == IF t.Spec.HasContainer THEN AddConfigs(a2, st, t.ID, t.Spec.Configs, 1) ELSE a2
        a4 == IF t.Spec.HasContainer
              THEN AddCertIssuances(a3, st, t.ID, t.Spec.CertificateIssuances, 1)
              ELSE a3
    IN  maybeAddStaticServiceDependencies(a4, st, t)

\* Mutant of releaseDependency: the REMOVE is written and the reverse entry
\* dropped whether or not other tasks still use the dependency.
releaseDependency_NoCount(a, mapKey, taskID) ==
    WriteRemove([a EXCEPT !.tud = Del(a.tud, mapKey)], mapKey)

\* assignmentSet.releaseDependency: TRUE (a REMOVE was written) is observed
\* through a.removes growing.
releaseDependency(a, mapKey, taskID) ==
    LET tud1 == IF mapKey \in DOMAIN a.tud
                THEN Put(a.tud, mapKey, a.tud[mapKey] \ {taskID})
                ELSE a.tud
    IN  IF Users(tud1, mapKey) # {}
        THEN [a EXCEPT !.tud = tud1]
        ELSE WriteRemove([a EXCEPT !.tud = Del(tud1, mapKey)], mapKey)

\* releaseTaskDependencies, lines 434-460: Spec.ResourceReferences.
RECURSIVE ReleaseResourceReferences(_, _, _, _)
ReleaseResourceReferences(a, taskID, refs, i) ==
    IF i > Len(refs) THEN a
    ELSE LET r == refs[i]
             a1 == IF r.ResourceType \in {"SECRET", "CONFIG"}
                   THEN releaseDependency(a, Key(r.ResourceType, r.ResourceID), taskID)
                   ELSE a
         IN  ReleaseResourceReferences(a1, taskID, refs, i + 1)

\* releaseTaskDependencies, lines 469-511: a list of secret or config ids.
RECURSIVE ReleaseIDs(_, _, _, _, _)
ReleaseIDs(a, taskID, ty, ids, i) ==
    IF i > Len(ids) THEN a
    ELSE ReleaseIDs(releaseDependency(a, Key(ty, ids[i]), taskID), taskID, ty, ids, i + 1)

\* assignmentSet.releaseTaskDependencies
releaseTaskDependencies(a, t) ==
    LET a1 == ReleaseResourceReferences(a, t.ID, t.Spec.ResourceReferences, 1)
        a2 == IF t.Spec.HasContainer THEN ReleaseIDs(a1, t.ID, "SECRET", t.Spec.Secrets, 1) ELSE a1
        a3 == IF t.Spec.HasContainer THEN ReleaseIDs(a2, t.ID, "CONFIG", t.Spec.Configs, 1) ELSE a2
    IN  ReleaseIDs(a3, t.ID, "CONFIG", t.MaterializedConfigs, 1)

\* The result of one assignmentSet call: the new maps, the return value and
\* the writes of the call.
CallResult(tm, a, ret) ==
    [tasksMap |-> tm, tud |-> a.tud, changes |-> a.changes, ret |-> ret,
     removes |-> a.removes, updates |-> a.updates, panicked |-> a.panicked]

\* Mutant of addOrUpdateTask: the admission check of lines 518-520 is left out.
addOrUpdateTask_NoAdmission(tm, tud, chg, st, t) ==
    LET a == ASet(tud, chg)
        exists == t.ID \in DOMAIN tm
        taskKey == Key("TASK", t.ID)
    IN  IF exists /\ TasksEqualStable(tm[t.ID], t) /\ StateLT("ASSIGNED", t.Status.State)
        THEN IF StateLT("RUNNING", t.Status.State)
             THEN LET a1 == releaseTaskDependencies(a, t)
                  IN  CallResult(Put(tm, t.ID, t), a1,
                                 IF Len(a1.removes) > 0 THEN "true" ELSE "false")
             ELSE CallResult(Put(tm, t.ID, t), a, "false")
        ELSE LET a1 == IF ~exists /\ StateLE(t.Status.State, "RUNNING")
                       THEN addTaskDependencies(a, st, t)
                       ELSE a
             IN  IF a1.panicked THEN CallResult(tm, a1, "panic")
                 ELSE CallResult(Put(tm, t.ID, t),
                                 WriteUpdate(a1, taskKey, [kind |-> "task", task |-> t]),
                                 "true")

\* Mutant of addOrUpdateTask: the dependencies of a new task are added
\* whatever its state.
addOrUpdateTask_AlwaysDeps(tm, tud, chg, st, t) ==
    LET a == ASet(tud, chg)
        exists == t.ID \in DOMAIN tm
        taskKey == Key("TASK", t.ID)
    IN  IF StateLT(t.Status.State, "ASSIGNED") THEN CallResult(tm, a, "false")
        ELSE IF exists /\ TasksEqualStable(tm[t.ID], t) /\ StateLT("ASSIGNED", t.Status.State)
        THEN IF StateLT("RUNNING", t.Status.State)
             THEN LET a1 == releaseTaskDependencies(a, t)
                  IN  CallResult(Put(tm, t.ID, t), a1,
                                 IF Len(a1.removes) > 0 THEN "true" ELSE "false")
             ELSE CallResult(Put(tm, t.ID, t), a, "false")
        ELSE LET a1 == IF ~exists THEN addTaskDependencies(a, st, t) ELSE a
             IN  IF a1.panicked THEN CallResult(tm, a1, "panic")
                 ELSE CallResult(Put(tm, t.ID, t),
                                 WriteUpdate(a1, taskKey, [kind |-> "task", task |-> t]),
                                 "true")

\* assignmentSet.addOrUpdateTask
addOrUpdateTask(tm, tud, chg, st, t) ==
    LET a == ASet(tud, chg)
        exists == t.ID \in DOMAIN tm
        taskKey == Key("TASK", t.ID)
    IN  IF StateLT(t.Status.State, "ASSIGNED") THEN CallResult(tm, a, "false")
        ELSE IF exists /\ TasksEqualStable(tm[t.ID], t) /\ StateLT("ASSIGNED", t.Status.State)
        THEN IF StateLT("RUNNING", t.Status.State)
             THEN LET a1 == releaseTaskDependencies(a, t)
                  IN  CallResult(Put(tm, t.ID, t), a1,
                                 IF Len(a1.removes) > 0 THEN "true" ELSE "false")
             ELSE CallResult(Put(tm, t.ID, t), a, "false")
        ELSE LET a1 == IF ~exists /\ StateLE(t.Status.State, "RUNNING")
                       THEN addTaskDependencies(a, st, t)
                       ELSE a
             IN  IF a1.panicked THEN CallResult(tm, a1, "panic")
                 ELSE CallResult(Put(tm, t.ID, t),
                                 WriteUpdate(a1, taskKey, [kind |-> "task", task |-> t]),
                                 "true")

\* Mutant of removeTask: the dependencies of the removed task are not released.
removeTask_KeepDependencies(tm, tud, chg, t) ==
    LET a == ASet(tud, chg)
    IN  IF t.ID \notin DOMAIN tm THEN CallResult(tm, a, "false")
        ELSE CallResult(Del(tm, t.ID), WriteRemove(a, Key("TASK", t.ID)), "true")

\* assignmentSet.removeTask
removeTask(tm, tud, chg, t) ==
    LET a == ASet(tud, chg)
    IN  IF t.ID \notin DOMAIN tm THEN CallResult(tm, a, "false")
        ELSE CallResult(Del(tm, t.ID),
                        releaseTaskDependencies(WriteRemove(a, Key("TASK", t.ID)), t),
                        "true")

\* Mutant of message: the REMOVE changes are left out of the message.
message_UpdatesOnly(chg) ==
    LET entries == {chg[k] : k \in {x \in DOMAIN chg : chg[x].Action = "Update"}}
    IN  [c \in entries |-> 1]

\* assignmentSet.message: the changes, each once (in no particular order).
message(chg) ==
    LET entries == {chg[k] : k \in DOMAIN chg}
    IN  [c \in entries |-> Cardinality({k \in DOMAIN chg : chg[k] = c})]

----------------------------------------------------------------------------
\* ---- Assignment engine: the store behind the ReadTx ----

StaticService(id, name, group, hasAttachment, addresses) ==
    [ID |-> id, Name |-> name, Static |-> TRUE, PeerGroup |-> group,
     HasStaticInfo |-> TRUE, HasAttachment |-> hasAttachment, Addresses |-> addresses]

ReplicatedService(id, name) ==
    [ID |-> id, Name |-> name, Static |-> FALSE, PeerGroup |-> "",
     HasStaticInfo |-> FALSE, HasAttachment |-> FALSE, Addresses |-> <<>>]

Addr1 == <<"10.0.0.1", "/", "24">>

Addr2 == <<"10.0.0.2", "/", "24">>

Addr3 == <<"10.0.0.3">>

ServiceTable(svcs) == [id \in {s.ID : s \in svcs} |-> CHOOSE s \in svcs : s.ID = id]

\* The service tables a session starts from: no service; s1 alone; s1 with an
\* allocated peer s2 and a service s3 of another group; s1 not yet allocated
\* an address; s1 with a peer that is not yet allocated; s1 not static.
ServiceWorlds ==
    { ServiceTable({}),
      ServiceTable({StaticService("s1", "web", "g1", TRUE, <<Addr1>>)}),
      ServiceTable({StaticService("s1", "web", "g1", TRUE, <<Addr1>>),
                    StaticService("s2", "db", "g1", TRUE, <<Addr3>>),
                    StaticService("s3", "cache", "g2", TRUE, <<Addr2>>)}),
      ServiceTable({StaticService("s1", "web", "g1", FALSE, <<>>)}),
      ServiceTable({StaticService("s1", "web", "g1", TRUE, <<Addr1>>),
                    StaticService("s2", "db", "g1", FALSE, <<>>)}),
      ServiceTable({ReplicatedService("s1", "web")}) }

SecretIDs == {"x"}

ConfigIDs == {"c"}

CAIDs == {"ca1"}

DriverKinds == {"none", "good", "bad"}

\* The task states and desired states the dispatcher is driven with: below
\* Assigned, Assigned, between Assigned and Running, above Running.
InputStates == {"PENDING", "ASSIGNED", "RUNNING", "FAILED"}

InputDesired == {"RUNNING", "SHUTDOWN"}

\* The number of calls made on one assignment set.
MaxCalls == 5

NoCall ==
    [op |-> "none", id |-> "", ret |-> "none", removes |-> <<>>, updates |-> <<>>,
     msg |-> EmptyMap]

EnvCall == [NoCall EXCEPT !.op = "store"]

InitAssign ==
    /\ tasksMap = EmptyMap
    /\ tasksUsingDependency = EmptyMap
    /\ changes = EmptyMap
    /\ rstore = [secrets |-> EmptyMap, configs |-> {}, cas |-> EmptyMap,
                 services |-> ServiceTable({})]
    /\ lastCall = NoCall
    /\ ncalls = 0
    /\ panicked = FALSE
    /\ StoreIdle
    /\ OrchIdle
    /\ FnIdle
    /\ WatchIdle
    /\ StopIdle
    /\ AgentIdle
    /\ ReconcileIdle

\* The effect of a call on the variables of the assignment set.
Apply(op, id, r) ==
    /\ tasksMap' = r.tasksMap
    /\ tasksUsingDependency' = r.tud
    /\ changes' = r.changes
    /\ panicked' = r.panicked
    /\ lastCall' = [op |-> op, id |-> id, ret |-> r.ret,
                    removes |-> r.removes, updates |-> r.updates, msg |-> EmptyMap]
    /\ ncalls' = ncalls + 1
    /\ UNCHANGED nonAssign

\* The dispatcher calls addOrUpdateTask with a task from the store. Status
\* states are monotonic: a task the set already holds is not seen again in a
\* state between Assigned and its held state.
AddOrUpdateTask(id, st, ds) ==
    /\ ~panicked /\ ncalls < MaxCalls
    /\ IF id \in DOMAIN tasksMap /\ ~StateLT(st, "ASSIGNED")
       THEN StateLE(tasksMap[id].Status.State, st)
       ELSE TRUE
    /\ Apply("addOrUpdateTask", id,
             addOrUpdateTask(tasksMap, tasksUsingDependency, changes, rstore,
                             AssignTask(id, st, ds)))
    /\ UNCHANGED rstore

\* The dispatcher calls removeTask with the deleted task.
RemoveTask(id) ==
    /\ ~panicked /\ ncalls < MaxCalls
    /\ Apply("removeTask", id,
             removeTask(tasksMap, tasksUsingDependency, changes,
                        IF id \in DOMAIN tasksMap THEN tasksMap[id]
                        ELSE AssignTask(id, "ASSIGNED", "RUNNING")))
    /\ UNCHANGED rstore

\* The dispatcher calls message() and sends the result.
Message ==
    /\ ~panicked /\ ncalls < MaxCalls
    /\ lastCall' = [NoCall EXCEPT !.op = "message", !.msg = message(changes)]
    /\ changes' = EmptyMap
    /\ ncalls' = ncalls + 1
    /\ UNCHANGED <<tasksMap, tasksUsingDependency, rstore, panicked>>
    /\ UNCHANGED nonAssign

\* The control plane creates or removes a secret or a config.
StoreCreateSecret(id, drv) ==
    /\ ~panicked
    /\ id \notin DOMAIN rstore.secrets
    /\ rstore' = [rstore EXCEPT !.secrets = Put(rstore.secrets, id, [Driver |-> drv])]
    /\ lastCall' = EnvCall
    /\ UNCHANGED <<tasksMap, tasksUsingDependency, changes, ncalls, panicked>>
    /\ UNCHANGED nonAssign

StoreRemoveSecret(id) ==
    /\ ~panicked
    /\ id \in DOMAIN rstore.secrets
    /\ rstore' = [rstore EXCEPT !.secrets = Del(rstore.secrets, id)]
    /\ lastCall' = EnvCall
    /\ UNCHANGED <<tasksMap, tasksUsingDependency, changes, ncalls, panicked>>
    /\ UNCHANGED nonAssign

StoreCreateConfig(id) ==
    /\ ~panicked
    /\ id \notin rstore.configs
    /\ rstore' = [rstore EXCEPT !.configs = rstore.configs \cup {id}]
    /\ lastCall' = EnvCall
    /\ UNCHANGED <<tasksMap, tasksUsingDependency, changes, ncalls, panicked>>
    /\ UNCHANGED nonAssign

StoreRemoveConfig(id) ==
    /\ ~panicked
    /\ id \in rstore.configs
    /\ rstore' = [rstore EXCEPT !.configs = rstore.configs \ {id}]
    /\ lastCall' = EnvCall
    /\ UNCHANGED <<tasksMap, tasksUsingDependency, changes, ncalls, panicked>>
    /\ UNCHANGED nonAssign

NextAssign ==
    \/ \E id \in AssignTaskIDs, st \in InputStates, ds \in InputDesired :
          AddOrUpdateTask(id, st, ds)
    \/ \E id \in AssignTaskIDs : RemoveTask(id)
    \/ Message
    \/ \E id \in SecretIDs, drv \in DriverKinds : StoreCreateSecret(id, drv)
    \/ \E id \in SecretIDs : StoreRemoveSecret(id)
    \/ \E id \in ConfigIDs : StoreCreateConfig(id)
    \/ \E id \in ConfigIDs : StoreRemoveConfig(id)

SpecAssign == InitAssign /\ [][NextAssign]_vars

\* A session with three tasks sharing secret x and config c, which both exist
\* in the store; the tasks are seen in the states Assigned, Running and Failed.
InitShared ==
    /\ tasksMap = EmptyMap
    /\ tasksUsingDependency = EmptyMap
    /\ changes = EmptyMap
    /\ \E drv \in {"none", "good"} :
          rstore = [secrets |-> [id \in SecretIDs |-> [Driver |-> drv]],
                    configs |-> ConfigIDs, cas |-> EmptyMap,
                    services |-> ServiceTable({})]
    /\ lastCall = NoCall
    /\ ncalls = 0
    /\ panicked = FALSE
    /\ StoreIdle
    /\ OrchIdle
    /\ FnIdle
    /\ WatchIdle
    /\ StopIdle
    /\ AgentIdle
    /\ ReconcileIdle

NextShared ==
    \/ \E id \in SharedTaskIDs, st \in InputStates \ {"PENDING"} :
          AddOrUpdateTask(id, st, "RUNNING")
    \/ \E id \in SharedTaskIDs : RemoveTask(id)
    \/ Message

SpecShared == InitShared /\ [][NextShared]_vars

----------------------------------------------------------------------------
\* ---- Store: the shared name-space of services and peer groups ----

\* A name is a sequence of characters.
Chars == {"a", "A", "b", "B"}

\* strings.ToLower, character by character.
LowerChar(c) == CASE c = "A" -> "a" [] c = "B" -> "b" [] OTHER -> c

ToLower(name) == [i \in 1..Len(name) |-> LowerChar(name[i])]

Names == {<<"a">>, <<"A">>, <<"b">>, <<"a", "b">>, <<"A", "B">>, <<"a", "B">>}

PeerGroupIDs == {"p1", "p2"}

StoreServiceIDs == {"s1", "s2"}

\* tx.lookup(table, indexName, key): the object of the table whose lower-cased
\* name is key (the name index is unique), or none.
lookup(table, key) == {id \in DOMAIN table : ToLower(table[id].Name) = key}

\* tx.create: ErrExist when the id is taken.
create(table, id, obj) ==
    IF id \in DOMAIN table THEN [err |-> "ErrExist", table |-> table]
    ELSE [err |-> "ok", table |-> Put(table, id, obj)]

\* tx.update: ErrNotExist when the object does not exist.
update(table, id, obj) ==
    IF id \notin DOMAIN table THEN [err |-> "ErrNotExist", table |-> table]
    ELSE [err |-> "ok", table |-> Put(table, id, obj)]

\* tx.delete: ErrNotExist when the object does not exist.
delete(table, id) ==
    IF id \notin DOMAIN table THEN [err |-> "ErrNotExist", table |-> table]
    ELSE [err |-> "ok", table |-> Del(table, id)]

\* Mutant of CreatePeerGroup: the service table is not consulted.
CreatePeerGroup_NoServiceLookup(pgs, svcs, id, name) ==
    IF lookup(pgs, ToLower(name)) # {} THEN [err |-> "ErrNameConflict", table |-> pgs]
    ELSE create(pgs, id, [Name |-> name])

\* Mutant of CreatePeerGroup: the name is looked up as written.
CreatePeerGroup_CaseSensitive(pgs, svcs, id, name) ==
    IF \E x \in DOMAIN pgs : pgs[x].Name = name
    THEN [err |-> "ErrNameConflict", table |-> pgs]
    ELSE IF \E x \in DOMAIN svcs : svcs[x].Name = name
    THEN [err |-> "ErrNameConflict", table |-> pgs]
    ELSE create(pgs, id, [Name |-> name])

\* store.CreatePeerGroup
CreatePeerGroup(pgs, svcs, id, name) ==
    IF lookup(pgs, ToLower(name)) # {} THEN [err |-> "ErrNameConflict", table |-> pgs]
    ELSE IF lookup(svcs, ToLower(name)) # {} THEN [err |-> "ErrNameConflict", table |-> pgs]
    ELSE create(pgs, id, [Name |-> name])

\* store.UpdatePeerGroup
UpdatePeerGroup(pgs, svcs, id, name) ==
    LET existing == lookup(pgs, ToLower(name))
    IN  IF existing # {} /\ existing # {id} THEN [err |-> "ErrNameConflict", table |-> pgs]
        ELSE IF existing = {} /\ lookup(svcs, ToLower(name)) # {}
        THEN [err |-> "ErrNameConflict", table |-> pgs]
        ELSE update(pgs, id, [Name |-> name])

\* store.DeletePeerGroup
DeletePeerGroup(pgs, id) == delete(pgs, id)

\* store.CreateService: the name must be used by no service and no peer group.
CreateService(svcs, pgs, id, name) ==
    IF lookup(svcs, ToLower(name)) # {} THEN [err |-> "ErrNameConflict", table |-> svcs]
    ELSE IF lookup(pgs, ToLower(name)) # {} THEN [err |-> "ErrNameConflict", table |-> svcs]
    ELSE create(svcs, id, [Name |-> name])

\* store.UpdateService: the name must be used by no other service and no peer group.
UpdateService(svcs, pgs, id, name) ==
    LET existing == lookup(svcs, ToLower(name))
    IN  IF existing # {} /\ existing # {id} THEN [err |-> "ErrNameConflict", table |-> svcs]
        ELSE IF existing = {} /\ lookup(pgs, ToLower(name)) # {}
        THEN [err |-> "ErrNameConflict", table |-> svcs]
        ELSE update(svcs, id, [Name |-> name])

\* store.DeleteService
DeleteService(svcs, id) == delete(svcs, id)

\* The assignment set while it is not exercised.
AssignIdle ==
    /\ tasksMap = EmptyMap
    /\ tasksUsingDependency = EmptyMap
    /\ changes = EmptyMap
    /\ rstore = [secrets |-> EmptyMap, configs |-> {}, cas |-> EmptyMap,
                 services |-> EmptyMap]
    /\ lastCall = NoCall
    /\ ncalls = 0
    /\ panicked = FALSE

InitStore ==
    /\ serviceTable = EmptyMap
    /\ peerGroupTable = EmptyMap
    /\ lastOp = NoOp
    /\ AssignIdle
    /\ OrchIdle
    /\ FnIdle
    /\ WatchIdle
    /\ StopIdle
    /\ AgentIdle
    /\ ReconcileIdle

\* MemoryStore.Update around one table operation: the transaction commits and
\* publishes its event when the callback returns nil; otherwise nothing is
\* installed and nothing is published.
Observe(op, id, name, r, event) ==
    lastOp' = [op |-> op, id |-> id, name |-> name, err |-> r.err,
               events |-> IF r.err = "ok" THEN <<[kind |-> event, id |-> id]>> ELSE <<>>]

TxCreatePeerGroup(id, name) ==
    LET r == CreatePeerGroup(peerGroupTable, serviceTable, id, name)
    IN  /\ peerGroupTable' = r.table
        /\ Observe("CreatePeerGroup", id, name, r, "EventCreatePeerGroup")
        /\ UNCHANGED <<serviceTable, nonStore>>

TxUpdatePeerGroup(id, name) ==
    LET r == UpdatePeerGroup(peerGroupTable, serviceTable, id, name)
    IN  /\ peerGroupTable' = r.table
        /\ Observe("UpdatePeerGroup", id, name, r, "EventUpdatePeerGroup")
        /\ UNCHANGED <<serviceTable, nonStore>>

TxDeletePeerGroup(id) ==
    LET r == DeletePeerGroup(peerGroupTable, id)
    IN  /\ peerGroupTable' = r.table
        /\ Observe("DeletePeerGroup", id, <<>>, r, "EventDeletePeerGroup")
        /\ UNCHANGED <<serviceTable, nonStore>>

TxCreateService(id, name) ==
    LET r == CreateService(serviceTable, peerGroupTable, id, name)
    IN  /\ serviceTable' = r.table
        /\ Observe("CreateService", id, name, r, "EventCreateService")
        /\ UNCHANGED <<peerGroupTable, nonStore>>

TxUpdateService(id, name) ==
    LET r == UpdateService(serviceTable, peerGroupTable, id, name)
    IN  /\ serviceTable' = r.table
        /\ Observe("UpdateService", id, name, r, "EventUpdateService")
        /\ UNCHANGED <<peerGroupTable, nonStore>>

TxDeleteService(id) ==
    LET r == DeleteService(serviceTable, id)
    IN  /\ serviceTable' = r.table
        /\ Observe("DeleteService", id, <<>>, r, "EventDeleteService")
        /\ UNCHANGED <<peerGroupTable, nonStore>>

NextStore ==
    \/ \E id \in PeerGroupIDs, name \in Names : TxCreatePeerGroup(id, name)
    \/ \E id \in PeerGroupIDs, name \in Names : TxUpdatePeerGroup(id, name)
    \/ \E id \in PeerGroupIDs : TxDeletePeerGroup(id)
    \/ \E id \in StoreServiceIDs, name \in Names : TxCreateService(id, name)
    \/ \E id \in StoreServiceIDs, name \in Names : TxUpdateService(id, name)
    \/ \E id \in StoreServiceIDs : TxDeleteService(id)

SpecStore == InitStore /\ [][NextStore]_vars

\* The lower-cased names in use, with the objects using them.
NameUsers(key) ==
    {<<"service", id>> : id \in lookup(serviceTable, key)}
    \cup {<<"peer_group", id>> : id \in lookup(peerGroupTable, key)}

\* C5: no two peer groups, no two services, and no service and peer group
\* have the same lower-cased name.
C5_UniqueNames ==
    \A name \in Names : Cardinality(NameUsers(ToLower(name))) <= 1

\* C5 witness: a peer group has just been renamed while another peer group
\* and a service exist, and its old name differs from the new one only by more
\* than case from every other name in use.
C5_Witness ==
    /\ lastOp.op = "UpdatePeerGroup" /\ lastOp.err = "ok"
    /\ DOMAIN peerGroupTable = PeerGroupIDs
    /\ DOMAIN serviceTable # {}
    /\ peerGroupTable[lastOp.id].Name = <<"A", "B">>

\* C6: CreatePeerGroup with a name that equals, ignoring case, the name of an
\* existing service or peer group fails with ErrNameConflict, leaves the
\* peer-group table unchanged and publishes no event.
C6_CreatePeerGroupConflict ==
    [][(lastOp'.op = "CreatePeerGroup" /\ NameUsers(ToLower(lastOp'.name)) # {})
       => /\ lastOp'.err = "ErrNameConflict"
          /\ peerGroupTable' = peerGroupTable
          /\ lastOp'.events = <<>>]_vars

\* C6 witness: a peer group was refused whose name differs only in case from
\* the name of a service (service "ab", peer group "AB").
C6_Witness ==
    /\ lastOp.op = "CreatePeerGroup" /\ lastOp.err = "ErrNameConflict"
    /\ lastOp.name = <<"A", "B">>
    /\ \E id \in DOMAIN serviceTable : serviceTable[id].Name = <<"a", "b">>
    /\ peerGroupTable = EmptyMap

----------------------------------------------------------------------------
\* ---- Assignment engine: properties ----

RECURSIVE SeqToSet(_)
SeqToSet(q) == IF q = <<>> THEN {} ELSE {Head(q)} \cup SeqToSet(Tail(q))

\* How many times x occurs in the sequence q.
RECURSIVE CountIn(_, _)
CountIn(q, x) ==
    IF q = <<>> THEN 0 ELSE (IF Head(q) = x THEN 1 ELSE 0) + CountIn(Tail(q), x)

\* The SECRET and CONFIG keys a task declares: its resource references of
\* these kinds, its container secrets and its container configs.
DeclaredKeys(t) ==
    {Key(r.ResourceType, r.ResourceID) :
        r \in {x \in SeqToSet(t.Spec.ResourceReferences) : x.ResourceType \in {"SECRET", "CONFIG"}}}
    \cup (IF t.Spec.HasContainer
          THEN {Key("SECRET", id) : id \in SeqToSet(t.Spec.Secrets)}
               \cup {Key("CONFIG", id) : id \in SeqToSet(t.Spec.Configs)}
          ELSE {})

\* The keys a task references: the declared ones and its materialized configs.
ReferencedKeys(t) ==
    DeclaredKeys(t) \cup {Key("CONFIG", id) : id \in SeqToSet(t.MaterializedConfigs)}

\* Every SECRET or CONFIG key of the catalogue or of the reverse index.
DepKeys ==
    UNION {ReferencedKeys(AssignTask(id, "ASSIGNED", "RUNNING")) : id \in TaskIDs}
    \cup {k \in DOMAIN tasksUsingDependency : k.objType # "TASK"}

HeldReferencing(k) == {id \in DOMAIN tasksMap : k \in ReferencedKeys(tasksMap[id])}

C2_RemoveOncePerTransition ==
    [][\A k \in DepKeys :
          CountIn(lastCall'.removes, k) =
             IF Users(tasksUsingDependency, k) # {} /\ Users(tasksUsingDependency', k) = {}
             THEN 1 ELSE 0]_vars

XKey == Key("SECRET", "x")

\* The step is a call of the named operation.
IsCall(op) == ncalls' = ncalls + 1 /\ lastCall'.op = op

\* C3: a secret x shared by several tasks. Adding a task in a state between
\* Assigned and Running that references x, while x can be fetched from the
\* store, writes an Update for x exactly when the task is the first user;
\* removing a user of x writes a REMOVE for x (once) exactly when it is the
\* last user.
C3_SharedDependency ==
    [][/\ (IsCall("addOrUpdateTask") /\ lastCall'.id \notin DOMAIN tasksMap
            /\ lastCall'.id \in DOMAIN tasksMap'
            /\ StateLE(tasksMap'[lastCall'.id].Status.State, "RUNNING")
            /\ XKey \in DeclaredKeys(tasksMap'[lastCall'.id])
            /\ secret(rstore, "x").ok)
           => /\ CountIn(lastCall'.updates, XKey) =
                    IF Users(tasksUsingDependency, XKey) = {} THEN 1 ELSE 0
              /\ lastCall'.id \in Users(tasksUsingDependency', XKey)
       /\ (IsCall("removeTask") /\ lastCall'.id \in Users(tasksUsingDependency, XKey))
           => /\ CountIn(lastCall'.removes, XKey) =
                    IF Users(tasksUsingDependency, XKey) = {lastCall'.id} THEN 1 ELSE 0
              /\ lastCall'.id \notin Users(tasksUsingDependency', XKey)
      ]_vars

\* C3 witness: of three tasks that shared x, t2 and then t1 were removed and
\* t4 still uses x: the only change pending for x is the Update of the first add.
C3_Witness ==
    /\ lastCall.op = "removeTask" /\ lastCall.id = "t1" /\ lastCall.ret = "true"
    /\ CountIn(lastCall.removes, XKey) = 0
    /\ Users(tasksUsingDependency, XKey) = {"t4"}
    /\ {Key("TASK", "t1"), Key("TASK", "t2")} \subseteq DOMAIN changes
    /\ changes[Key("TASK", "t2")].Action = "Remove"
    /\ changes[XKey].Action = "Update"

\* C4: message() returns every entry of changes exactly once and leaves
\* changes empty; it leaves tasksMap and tasksUsingDependency unchanged; a
\* message() that directly follows a message() returns no changes.
C4_MessageDrains ==
    [][IsCall("message")
       => /\ DOMAIN lastCall'.msg = {changes[k] : k \in DOMAIN changes}
          /\ \A c \in DOMAIN lastCall'.msg : lastCall'.msg[c] = 1
          /\ changes' = EmptyMap
          /\ tasksMap' = tasksMap
          /\ tasksUsingDependency' = tasksUsingDependency
          /\ (lastCall.op = "message" => lastCall'.msg = EmptyMap)
      ]_vars

\* C4 witness: a message carrying a TASK change and a REMOVE has just been drained.
C4_Witness ==
    /\ lastCall.op = "message"
    /\ \E c \in DOMAIN lastCall.msg : c.Action = "Remove" /\ c.Type = "SECRET"
    /\ \E c \in DOMAIN lastCall.msg : c.Action = "Update" /\ c.Type = "TASK"
    /\ changes = EmptyMap

----------------------------------------------------------------------------
\* ---- Static orchestrator: data ----

\* api.Version pointers: unset, or set to an index.
NilVersion == [Set |-> FALSE, Index |-> 0]

VersionAt(i) == [Set |-> TRUE, Index |-> i]

OrchServiceIDs == {"s1", "s2"}

OrchNodeIDs == {"n1", "n2"}

\* The certificate issuances of the task spec of a service.
IssuancesOf(id) == IF id = "s2" THEN <<"ca1">> ELSE <<>>

\* api.Service as the orchestrator reads it: the mode, and StaticInfo (set for
\* static services) with its NodeID ("" until the scheduler pins the service)
\* and Message.
OrchService(id, static, nodeID) ==
    [ID |-> id, Static |-> static, HasStaticInfo |-> static,
     NodeID |-> nodeID, Message |-> "",
     SpecVersion |-> VersionAt(1),
     Spec |-> [HasContainer |-> TRUE, CertificateIssuances |-> IssuancesOf(id),
               LogDriver |-> "nil"]]

\* identity.NewID: the n-th fresh id.
NewID(n) == "k" \o ToString(n)

\* A watch event with the object it carries.
Ev(kind, obj) == [kind |-> kind, obj |-> obj]

\* The tables a transaction works on, with the events committed so far.
OStore(sv, tk, ev) == [services |-> sv, tasks |-> tk, events |-> ev]

\* The orders in which a loop can visit the members of S (Go map iteration,
\* index order over random ids).
Orders(S) ==
    {f \in [1..Cardinality(S) -> S] : \A i, j \in 1..Cardinality(S) : f[i] = f[j] => i = j}

\* store.FindTasks(tx, ByServiceID(id))
TasksOf(tk, serviceID) == {id \in DOMAIN tk : tk[id].ServiceID = serviceID}

\* store.FindTasks(tx, ByNodeID(id))
TasksOn(tk, nodeID) == {id \in DOMAIN tk : tk[id].NodeID = nodeID}

\* store.CreateTask
txCreateTask(st, t) ==
    IF t.ID \in DOMAIN st.tasks THEN st
    ELSE [st EXCEPT !.tasks = Put(@, t.ID, t), !.events = Append(@, Ev("CreateTask", t))]

\* store.UpdateTask
txUpdateTask(st, t) ==
    IF t.ID \notin DOMAIN st.tasks THEN st
    ELSE [st EXCEPT !.tasks = Put(@, t.ID, t), !.events = Append(@, Ev("UpdateTask", t))]

\* store.DeleteTask: the event carries the last committed value.
txDeleteTask(st, id) ==
    IF id \notin DOMAIN st.tasks THEN st
    ELSE [st EXCEPT !.tasks = Del(@, id),
                    !.events = Append(@, Ev("DeleteTask", st.tasks[id]))]

\* store.UpdateService, on a service whose name does not change.
txUpdateService(st, s) ==
    IF s.ID \notin DOMAIN st.services THEN st
    ELSE [st EXCEPT !.services = Put(@, s.ID, s),
                    !.events = Append(@, Ev("UpdateService", s))]

\* orchestrator.IsStaticService
IsStaticService(s) == s.Static

\* Orchestrator.IsRelatedService
IsRelatedService(s) == IsStaticService(s) /\ s.NodeID # ""

\* NewTask, lines 18-25: the log driver of the task spec if it has one, else
\* the default of the cluster if there is a cluster ("nil": no driver).
NewTaskLogDriver(cl, service) ==
    IF service.Spec.LogDriver # "nil" THEN service.Spec.LogDriver
    ELSE IF cl.ID # "nil" THEN cl.LogDriver
    ELSE "nil"

\* Mutant of NewTask: the node id is not set.
NewTask_NoNode(cl, service, slot, nodeID, taskID) ==
    [ID |-> taskID, ServiceID |-> service.ID, Slot |-> slot, NodeID |-> "",
     Spec |-> service.Spec, SpecVersion |-> service.SpecVersion,
     Status |-> [State |-> "NEW"], DesiredState |-> "RUNNING",
     LogDriver |-> NewTaskLogDriver(cl, service),
     MaterializedConfigs |->
         NewTaskMaterializedConfigs(taskID, service.Spec, service.HasStaticInfo)]

\* Mutant of NewTask: the cluster default wins over the spec's log driver.
NewTask_ClusterDriver(cl, service, slot, nodeID, taskID) ==
    [ID |-> taskID, ServiceID |-> service.ID, Slot |-> slot,
     NodeID |-> IF nodeID # "" THEN nodeID ELSE "",
     Spec |-> service.Spec, SpecVersion |-> service.SpecVersion,
     Status |-> [State |-> "NEW"], DesiredState |-> "RUNNING",
     LogDriver |-> IF cl.ID # "nil" THEN cl.LogDriver ELSE service.Spec.LogDriver,
     MaterializedConfigs |->
         NewTaskMaterializedConfigs(taskID, service.Spec, service.HasStaticInfo)]

\* orchestrator.NewTask, with the id identity.NewID returned.
NewTask(cl, service, slot, nodeID, taskID) ==
    [ID |-> taskID, ServiceID |-> service.ID, Slot |-> slot,
     NodeID |-> IF nodeID # "" THEN nodeID ELSE "",
     Spec |-> service.Spec, SpecVersion |-> service.SpecVersion,
     Status |-> [State |-> "NEW"], DesiredState |-> "RUNNING",
     LogDriver |-> NewTaskLogDriver(cl, service),
     MaterializedConfigs |->
         NewTaskMaterializedConfigs(taskID, service.Spec, service.HasStaticInfo)]

\* Mutant of addTask: the transaction does not test that the service is still
\* in the store.
addTask_NoServiceTest(st, cl, service, nodeID, taskID) ==
    LET new == NewTask(cl, service, 0, nodeID, taskID)
        task == [new EXCEPT !.MaterializedConfigs = @ \o <<PeerGroupConfigID(new.ID)>>]
    IN  txCreateTask(st, task)

\* Orchestrator.addTask
addTask(st, cl, service, nodeID, taskID) ==
    LET new == NewTask(cl, service, 0, nodeID, taskID)
        task == [new EXCEPT !.MaterializedConfigs = @ \o <<PeerGroupConfigID(new.ID)>>]
    IN  IF service.ID \notin DOMAIN st.services THEN st
        ELSE txCreateTask(st, task)

\* restarts.Restart: the task is shut down; the service's restart policy
\* (condition none) asks for no replacement.
Restart(st, service, t) == txUpdateTask(st, [t EXCEPT !.DesiredState = "SHUTDOWN"])

\* updater.Update: the task specs of the services never change here, so the
\* update supervisor finds no task to replace.
UpdaterUpdate(st, service, tasks) == st

\* Orchestrator.updateService
updateService(svcs, byNode, service) ==
    [services |-> Put(svcs, service.ID, service),
     byNode |-> IF service.NodeID # ""
                THEN Put(byNode, service.NodeID,
                         (IF service.NodeID \in DOMAIN byNode
                          THEN byNode[service.NodeID] ELSE {}) \cup {service.ID})
                ELSE byNode]

\* Mutant of ReconcileBatch: a task is added whether or not the service has
\* tasks.
RECURSIVE ReconcileBatch_AlwaysAdd(_, _, _, _, _, _)
ReconcileBatch_AlwaysAdd(r, view, cl, svcs, serviceIDs, i) ==
    IF i > Len(serviceIDs) THEN r
    ELSE IF serviceIDs[i] \notin DOMAIN svcs
    THEN ReconcileBatch_AlwaysAdd(r, view, cl, svcs, serviceIDs, i + 1)
    ELSE LET service == svcs[serviceIDs[i]]
         IN  ReconcileBatch_AlwaysAdd(
                 [st |-> addTask(r.st, cl, service, service.NodeID, NewID(r.nextID + 1)),
                  nextID |-> r.nextID + 1],
                 view, cl, svcs, serviceIDs, i + 1)

\* Orchestrator.reconcileServices: the View that sorts the services, then the
\* Batch that adds the missing tasks. r carries the store and the id counter.
RECURSIVE ReconcileBatch(_, _, _, _, _, _)
ReconcileBatch(r, view, cl, svcs, serviceIDs, i) ==
    IF i > Len(serviceIDs) THEN r
    ELSE IF serviceIDs[i] \notin DOMAIN svcs
    THEN ReconcileBatch(r, view, cl, svcs, serviceIDs, i + 1)
    ELSE LET service == svcs[serviceIDs[i]]
         IN  IF TasksOf(view.tasks, service.ID) = {}
             THEN ReconcileBatch(
                      [st |-> addTask(r.st, cl, service, service.NodeID, NewID(r.nextID + 1)),
                       nextID |-> r.nextID + 1],
                      view, cl, svcs, serviceIDs, i + 1)
             ELSE ReconcileBatch(
                      [r EXCEPT !.st = UpdaterUpdate(@, service, TasksOf(view.tasks, service.ID))],
                      view, cl, svcs, serviceIDs, i + 1)

reconcileServices(st, cl, svcs, serviceIDs, n) ==
    ReconcileBatch([st |-> st, nextID |-> n], st, cl, svcs, serviceIDs, 1)

\* Mutant of handleTaskChange: the status is not looked at.
handleTaskChange_AnyState(svcs, rt, t) ==
    IF t.ServiceID \notin DOMAIN svcs THEN rt
    ELSE IF StateLT("RUNNING", t.DesiredState) THEN rt
    ELSE rt \cup {t.ID}

\* Orchestrator.handleTaskChange
handleTaskChange(svcs, rt, t) ==
    IF t.ServiceID \notin DOMAIN svcs THEN rt
    ELSE IF StateLT("RUNNING", t.DesiredState) THEN rt
    ELSE IF StateLT("RUNNING", t.Status.State) THEN rt \cup {t.ID}
    ELSE rt

\* Orchestrator.FixTask
FixTask(svcs, rt, t) ==
    IF t.ServiceID \notin DOMAIN svcs THEN rt
    ELSE IF StateLT("RUNNING", t.DesiredState) THEN rt
    ELSE IF StateLT("RUNNING", t.Status.State) THEN rt \cup {t.ID}
    ELSE rt

\* taskinit.CheckTasks: FixTask on every task of a related service.
RECURSIVE CheckTasks(_, _, _, _, _)
CheckTasks(st, svcs, rt, ord, i) ==
    IF i > Len(ord) THEN rt
    ELSE LET t == st.tasks[ord[i]]
         IN  IF t.ServiceID \in DOMAIN st.services
                /\ IsRelatedService(st.services[t.ServiceID])
             THEN CheckTasks(st, svcs, FixTask(svcs, rt, t), ord, i + 1)
             ELSE CheckTasks(st, svcs, rt, ord, i + 1)

\* Mutant of tickTasks: the desired state of the task is not looked at.
RECURSIVE tickTasks_AnyDesiredState(_, _, _)
tickTasks_AnyDesiredState(r, ord, i) ==
    IF i > Len(ord) THEN r
    ELSE IF ord[i] \notin DOMAIN r.st.tasks THEN tickTasks_AnyDesiredState(r, ord, i + 1)
    ELSE LET t == r.st.tasks[ord[i]]
         IN  IF t.ServiceID \notin DOMAIN r.st.services
             THEN tickTasks_AnyDesiredState(r, ord, i + 1)
             ELSE tickTasks_AnyDesiredState(
                      [st |-> Restart(r.st, r.st.services[t.ServiceID], t),
                       restarted |-> Append(r.restarted, t.ID)], ord, i + 1)

\* Orchestrator.tickTasks: one transaction per queued task id. r carries the
\* store and the tasks handed to the restart supervisor.
RECURSIVE tickTasks(_, _, _)
tickTasks(r, ord, i) ==
    IF i > Len(ord) THEN r
    ELSE IF ord[i] \notin DOMAIN r.st.tasks THEN tickTasks(r, ord, i + 1)
    ELSE LET t == r.st.tasks[ord[i]]
         IN  IF StateLT("RUNNING", t.DesiredState) THEN tickTasks(r, ord, i + 1)
             ELSE IF t.ServiceID \notin DOMAIN r.st.services THEN tickTasks(r, ord, i + 1)
             ELSE tickTasks([st |-> Restart(r.st, r.st.services[t.ServiceID], t),
                             restarted |-> Append(r.restarted, t.ID)], ord, i + 1)

\* Mutant of foreachTaskFromNode: the services index is not looked at.
RECURSIVE foreachTaskFromNode_AnyService(_, _, _, _, _)
foreachTaskFromNode_AnyService(st, tasks, svcs, ord, i) ==
    IF i > Len(ord) THEN st
    ELSE foreachTaskFromNode_AnyService(txDeleteTask(st, ord[i]), tasks, svcs, ord, i + 1)

\* Orchestrator.foreachTaskFromNode with deleteTask: the Batch over the tasks
\* the View found; deleteTask of a task that is gone changes nothing.
RECURSIVE foreachTaskFromNode(_, _, _, _, _)
foreachTaskFromNode(st, tasks, svcs, ord, i) ==
    IF i > Len(ord) THEN st
    ELSE IF tasks[ord[i]].ServiceID \in DOMAIN svcs
    THEN foreachTaskFromNode(txDeleteTask(st, ord[i]), tasks, svcs, ord, i + 1)
    ELSE foreachTaskFromNode(st, tasks, svcs, ord, i + 1)

\* Run, EventDeleteNode: the transaction that marks the services pinned to
\* the node.
RECURSIVE MarkNodeRemoved(_, _, _)
MarkNodeRemoved(st, ord, i) ==
    IF i > Len(ord) THEN st
    ELSE IF ord[i] \notin DOMAIN st.services THEN MarkNodeRemoved(st, ord, i + 1)
    ELSE MarkNodeRemoved(
             txUpdateService(st, [st.services[ord[i]] EXCEPT !.Message = "Static Node Removed"]),
             ord, i + 1)

\* orchestrator.SetServiceTasksRemove: the tasks of the service are marked
\* for removal.
RECURSIVE SetServiceTasksRemove(_, _, _)
SetServiceTasksRemove(st, ord, i) ==
    IF i > Len(ord) THEN st
    ELSE IF ord[i] \notin DOMAIN st.tasks THEN SetServiceTasksRemove(st, ord, i + 1)
    ELSE SetServiceTasksRemove(
             txUpdateTask(st, [st.tasks[ord[i]] EXCEPT !.DesiredState = "REMOVE"]),
             ord, i + 1)

----------------------------------------------------------------------------
\* ---- Static orchestrator: the Run loop and the other writers ----

\* The cluster object; NilCluster stands for "no cluster".
NilCluster == [ID |-> "nil", Version |-> 0, LogDriver |-> "nil"]

ClusterObject(version) == [ID |-> "default", Version |-> version, LogDriver |-> "syslog"]

\* Writes by other components (control API, scheduler, agents) while the
\* orchestrator runs.
MaxWrites == 2

\* The status states other components report for a task.
ReportedStates == {"RUNNING", "FAILED", "ORPHANED"}

\* The task a previous leader's orchestrator left for the service, in status
\* state `state`.
PriorTask(service, state) ==
    LET st == addTask(OStore(Put(EmptyMap, service.ID, service), EmptyMap, <<>>),
                      NilCluster, service, service.NodeID, NewID(0))
    IN  [st.tasks[NewID(0)] EXCEPT !.Status = [State |-> state]]

\* The store contents Run can start from.
OrchWorlds ==
    LET pinned == OrchService("s1", TRUE, "n1")
        unpinned == OrchService("s1", TRUE, "")
    IN  { [services |-> EmptyMap, tasks |-> EmptyMap],
          [services |-> Put(EmptyMap, "s1", pinned), tasks |-> EmptyMap],
          [services |-> Put(EmptyMap, "s1", pinned),
           tasks |-> Put(EmptyMap, NewID(0), PriorTask(pinned, "FAILED"))],
          [services |-> Put(EmptyMap, "s1", unpinned), tasks |-> EmptyMap] }

InitOrch ==
    /\ \E w \in OrchWorlds : storeServices = w.services /\ storeTasks = w.tasks
    /\ storeNodes = OrchNodeIDs
    /\ storeCluster \in {NilCluster, ClusterObject(1)}
    /\ deletedServices = {}
    /\ watch = <<>>
    /\ pc = "init"
    /\ services = EmptyMap
    /\ servicesByNodeID = EmptyMap
    /\ restartTasks = {}
    /\ cluster = NilCluster
    /\ nextID = 0
    /\ nwrites = 0
    /\ restarts = <<>>
    /\ AssignIdle
    /\ StoreIdle
    /\ FnIdle
    /\ WatchIdle
    /\ StopIdle
    /\ AgentIdle
    /\ ReconcileIdle

\* Run, lines 95-101: updateService on every static service found.
RECURSIVE TrackExisting(_, _, _, _)
TrackExisting(idx, sv, ord, i) ==
    IF i > Len(ord) THEN idx
    ELSE TrackExisting(updateService(idx.services, idx.byNode, sv[ord[i]]), sv, ord, i + 1)

\* Run, lines 66-67: queue.Watch() subscribes the watcher; the events
\* committed from now on are queued for it.
StartWatch ==
    /\ pc = "init"
    /\ pc' = "cluster"
    /\ UNCHANGED <<storeServices, storeTasks, storeNodes, storeCluster, deletedServices,
                   watch, services, servicesByNodeID, restartTasks, cluster, nextID,
                   nwrites, restarts, nonOrch>>

\* Run, lines 72-80: the View that looks up the default cluster.
StartCluster ==
    /\ pc = "cluster"
    /\ cluster' = storeCluster
    /\ pc' = "services"
    /\ UNCHANGED <<storeServices, storeTasks, storeNodes, storeCluster, deletedServices,
                   watch, services, servicesByNodeID, restartTasks, nextID, nwrites,
                   restarts, nonOrch>>

\* Run, lines 87-101: the View that lists the services, then updateService on
\* every static one; their ids are those reconcileServices will be given.
StartServices ==
    /\ pc = "services"
    /\ \E sord \in Orders({id \in DOMAIN storeServices : IsStaticService(storeServices[id])}) :
         LET idx == TrackExisting([services |-> services, byNode |-> servicesByNodeID],
                                  storeServices, sord, 1)
         IN  /\ services' = idx.services
             /\ servicesByNodeID' = idx.byNode
             /\ reconcileView' = [NoView EXCEPT !.ids = sord]
    /\ pc' = "tasks"
    /\ UNCHANGED <<storeServices, storeTasks, storeNodes, storeCluster, deletedServices,
                   watch, restartTasks, cluster, nextID, nwrites, restarts, nodeTasks,
                   nonRun>>

\* Run, lines 104-106: the View of initTasks (taskinit.CheckTasks).
StartTasks ==
    /\ pc = "tasks"
    /\ \E tord \in Orders(DOMAIN storeTasks) :
         restartTasks' = CheckTasks(OStore(storeServices, storeTasks, watch), services,
                                    restartTasks, tord, 1)
    /\ pc' = "starttick"
    /\ UNCHANGED <<storeServices, storeTasks, storeNodes, storeCluster, deletedServices,
                   watch, services, servicesByNodeID, cluster, nextID, nwrites, restarts,
                   nonOrch>>

\* Run, lines 81-83, 91-93 and 107-109: the find of one of the three Views
\* fails and Run returns the error; the deferred close(o.doneChan) runs.
StartFails ==
    /\ pc \in {"cluster", "services", "tasks"}
    /\ pc' = "done"
    /\ doneChan' = "closed"
    /\ UNCHANGED <<stopChan, stopPc, avars, svars, fvars, wvars, gvars, storeServices,
                   storeTasks, storeNodes, storeCluster, deletedServices, watch, services,
                   servicesByNodeID, restartTasks, cluster, nextID, nwrites, restarts>>

\* reconcileServices at start-up, lines 246-273: the View that reads the tasks
\* of the services.
ReconcileView ==
    /\ pc = "view"
    /\ reconcileView' = [reconcileView EXCEPT !.services = storeServices,
                                               !.tasks = storeTasks]
    /\ pc' = "batch"
    /\ UNCHANGED <<storeServices, storeTasks, storeNodes, storeCluster, deletedServices,
                   watch, services, servicesByNodeID, restartTasks, cluster, nextID,
                   nwrites, restarts, nodeTasks, nonRun>>

\* reconcileServices, lines 275-288: the Batch that adds the missing tasks to
\* the store as it is now, and updater.Update, which changes nothing here.
ReconcileWrite ==
    /\ pc = "batch"
    /\ LET rc == ReconcileBatch([st |-> OStore(storeServices, storeTasks, watch),
                                 nextID |-> nextID],
                                OStore(reconcileView.services, reconcileView.tasks, <<>>),
                                cluster, services, reconcileView.ids, 1)
       IN  /\ storeServices' = rc.st.services
           /\ storeTasks' = rc.st.tasks
           /\ watch' = rc.st.events
           /\ nextID' = rc.nextID
    /\ pc' = reconcileView.next
    /\ UNCHANGED <<storeNodes, storeCluster, deletedServices, services, servicesByNodeID,
                   restartTasks, cluster, nwrites, restarts, nonOrch>>

\* Run, case EventUpdateCluster
HandleUpdateCluster ==
    /\ pc = "recv" /\ watch # <<>> /\ Head(watch).kind = "UpdateCluster"
    /\ cluster' = Head(watch).obj
    /\ watch' = Tail(watch)
    /\ pc' = "tick"
    /\ UNCHANGED <<storeServices, storeTasks, storeNodes, storeCluster, deletedServices,
                   services, servicesByNodeID, restartTasks, nextID, nwrites, restarts,
                   nonOrch>>

\* Run, cases EventCreateService and EventUpdateService: updateService, then
\* the View of reconcileServices (lines 246-273).
HandleService ==
    /\ pc = "recv" /\ watch # <<>>
    /\ Head(watch).kind \in {"CreateService", "UpdateService"}
    /\ LET v == Head(watch).obj
       IN  IF ~IsRelatedService(v)
           THEN UNCHANGED <<services, servicesByNodeID, pc, reconcileView>>
           ELSE LET idx == updateService(services, servicesByNodeID, v)
                IN  /\ services' = idx.services
                    /\ servicesByNodeID' = idx.byNode
                    /\ reconcileView' = [ids |-> <<v.ID>>, services |-> storeServices,
                                         tasks |-> storeTasks, next |-> "tick"]
                    /\ pc' = "batch"
    /\ watch' = Tail(watch)
    /\ UNCHANGED <<storeServices, storeTasks, storeNodes, storeCluster, deletedServices,
                   restartTasks, cluster, nextID, nwrites, restarts, nodeTasks, nonRun>>

\* Mutant of HandleDeleteService: the service stays in the services index.
HandleDeleteService_KeepIndex ==
    /\ pc = "recv" /\ watch # <<>> /\ Head(watch).kind = "DeleteService"
    /\ LET v == Head(watch).obj
       IN  IF ~IsRelatedService(v)
           THEN /\ watch' = Tail(watch)
                /\ UNCHANGED <<storeTasks, services, servicesByNodeID, pc>>
           ELSE \E tord \in Orders(TasksOf(storeTasks, v.ID)) :
                  LET st == SetServiceTasksRemove(
                                OStore(storeServices, storeTasks, Tail(watch)), tord, 1)
                  IN  /\ storeTasks' = st.tasks
                      /\ watch' = st.events
                      /\ services' = services
                      /\ servicesByNodeID' =
                             IF v.NodeID \in DOMAIN servicesByNodeID
                             THEN Put(servicesByNodeID, v.NodeID,
                                      servicesByNodeID[v.NodeID] \ {v.ID})
                             ELSE servicesByNodeID
                      /\ pc' = "tick"
    /\ UNCHANGED <<storeServices, storeNodes, storeCluster, deletedServices, restartTasks,
                   cluster, nextID, nwrites, restarts, nonOrch>>

\* Run, case EventDeleteService
HandleDeleteService ==
    /\ pc = "recv" /\ watch # <<>> /\ Head(watch).kind = "DeleteService"
    /\ LET v == Head(watch).obj
       IN  IF ~IsRelatedService(v)
           THEN /\ watch' = Tail(watch)
                /\ UNCHANGED <<storeTasks, services, servicesByNodeID, pc>>
           ELSE \E tord \in Orders(TasksOf(storeTasks, v.ID)) :
                  LET st == SetServiceTasksRemove(
                                OStore(storeServices, storeTasks, Tail(watch)), tord, 1)
                  IN  /\ storeTasks' = st.tasks
                      /\ watch' = st.events
                      /\ services' = Del(services, v.ID)
                      /\ servicesByNodeID' =
                             IF v.NodeID \in DOMAIN servicesByNodeID
                             THEN Put(servicesByNodeID, v.NodeID,
                                      servicesByNodeID[v.NodeID] \ {v.ID})
                             ELSE servicesByNodeID
                      /\ pc' = "tick"
    /\ UNCHANGED <<storeServices, storeNodes, storeCluster, deletedServices, restartTasks,
                   cluster, nextID, nwrites, restarts, nonOrch>>

\* Run, case EventDeleteNode: the View of foreachTaskFromNode (lines 220-222).
HandleDeleteNode ==
    /\ pc = "recv" /\ watch # <<>> /\ Head(watch).kind = "DeleteNode"
    /\ LET v == Head(watch).obj
       IN  nodeTasks' = [node |-> v.ID,
                         tasks |-> [id \in TasksOn(storeTasks, v.ID) |-> storeTasks[id]]]
    /\ watch' = Tail(watch)
    /\ pc' = "nodebatch"
    /\ UNCHANGED <<storeServices, storeTasks, storeNodes, storeCluster, deletedServices,
                   services, servicesByNodeID, restartTasks, cluster, nextID, nwrites,
                   restarts, reconcileView, nonRun>>

\* Run, case EventDeleteNode: the Batch of foreachTaskFromNode (lines 228-236).
DeleteNodeBatch ==
    /\ pc = "nodebatch"
    /\ \E tord \in Orders(DOMAIN nodeTasks.tasks) :
         LET st == foreachTaskFromNode(OStore(storeServices, storeTasks, watch),
                                       nodeTasks.tasks, services, tord, 1)
         IN  /\ storeTasks' = st.tasks
             /\ watch' = st.events
    /\ pc' = "nodeupdate"
    /\ UNCHANGED <<storeServices, storeNodes, storeCluster, deletedServices, services,
                   servicesByNodeID, restartTasks, cluster, nextID, nwrites, restarts,
                   nonOrch>>

\* Run, case EventDeleteNode: the Update that marks the services pinned to the
\* node (lines 147-159).
DeleteNodeUpdate ==
    /\ pc = "nodeupdate"
    /\ LET pinned == IF nodeTasks.node \in DOMAIN servicesByNodeID
                     THEN servicesByNodeID[nodeTasks.node] ELSE {}
       IN  \E sord \in Orders(pinned) :
             LET st == MarkNodeRemoved(OStore(storeServices, storeTasks, watch), sord, 1)
             IN  /\ storeServices' = st.services
                 /\ watch' = st.events
    /\ pc' = "tick"
    /\ UNCHANGED <<storeTasks, storeNodes, storeCluster, deletedServices, services,
                   servicesByNodeID, restartTasks, cluster, nextID, nwrites, restarts,
                   nonOrch>>

\* Mutant of HandleUpdateTask: the case ends with continue, so the tickTasks
\* of the iteration is skipped.
HandleUpdateTask_Continue ==
    /\ pc = "recv" /\ watch # <<>> /\ Head(watch).kind = "UpdateTask"
    /\ restartTasks' = handleTaskChange(services, restartTasks, Head(watch).obj)
    /\ watch' = Tail(watch)
    /\ pc' = "recv"
    /\ UNCHANGED <<storeServices, storeTasks, storeNodes, storeCluster, deletedServices,
                   services, servicesByNodeID, cluster, nextID, nwrites, restarts, nonOrch>>

\* Run, case EventUpdateTask
HandleUpdateTask ==
    /\ pc = "recv" /\ watch # <<>> /\ Head(watch).kind = "UpdateTask"
    /\ restartTasks' = handleTaskChange(services, restartTasks, Head(watch).obj)
    /\ watch' = Tail(watch)
    /\ pc' = "tick"
    /\ UNCHANGED <<storeServices, storeTasks, storeNodes, storeCluster, deletedServices,
                   services, servicesByNodeID, cluster, nextID, nwrites, restarts, nonOrch>>

\* Run, an event of a type the switch has no case for
HandleOtherEvent ==
    /\ pc = "recv" /\ watch # <<>>
    /\ Head(watch).kind \in {"CreateTask", "DeleteTask", "CreateCluster", "UpdateNode"}
    /\ watch' = Tail(watch)
    /\ pc' = "tick"
    /\ UNCHANGED <<storeServices, storeTasks, storeNodes, storeCluster, deletedServices,
                   services, servicesByNodeID, restartTasks, cluster, nextID, nwrites,
                   restarts, nonOrch>>

\* Run, tickTasks: the one of start-up (line 111) and the one that ends an
\* iteration of the loop (line 168).
TickTasks ==
    /\ pc \in {"starttick", "tick"}
    /\ \E rord \in Orders(restartTasks) :
         LET tk == tickTasks([st |-> OStore(storeServices, storeTasks, watch),
                              restarted |-> <<>>], rord, 1)
         IN  /\ storeTasks' = tk.st.tasks
             /\ watch' = tk.st.events
             /\ restarts' = tk.restarted
    /\ restartTasks' = {}
    /\ pc' = IF pc = "starttick" THEN "view" ELSE "recv"
    /\ UNCHANGED <<storeServices, storeNodes, storeCluster, deletedServices, services,
                   servicesByNodeID, cluster, nextID, nwrites, nonOrch>>

\* A write by another component: it commits and its event reaches the watcher,
\* which is subscribed from the start of Run until Run returns.
Written(ev) ==
    /\ pc \notin {"init", "done"}
    /\ nwrites < MaxWrites
    /\ nwrites' = nwrites + 1
    /\ watch' = Append(watch, ev)
    /\ UNCHANGED <<pc, services, servicesByNodeID, restartTasks, cluster, nextID,
                   restarts, nonOrch>>

\* The control API creates a service; a static one may already be pinned.
EnvCreateService(id, static, nodeID) ==
    /\ id \notin DOMAIN storeServices /\ id \notin deletedServices
    /\ IF static THEN nodeID \in storeNodes \cup {""} ELSE nodeID = ""
    /\ storeServices' = Put(storeServices, id, OrchService(id, static, nodeID))
    /\ Written(Ev("CreateService", OrchService(id, static, nodeID)))
    /\ UNCHANGED <<storeTasks, storeNodes, storeCluster, deletedServices>>

\* The scheduler pins a static service to a node.
EnvPinService(id, nodeID) ==
    /\ id \in DOMAIN storeServices
    /\ storeServices[id].Static /\ storeServices[id].NodeID = ""
    /\ nodeID \in storeNodes
    /\ LET s == [storeServices[id] EXCEPT !.NodeID = nodeID]
       IN  /\ storeServices' = Put(storeServices, id, s)
           /\ Written(Ev("UpdateService", s))
    /\ UNCHANGED <<storeTasks, storeNodes, storeCluster, deletedServices>>

\* The control API removes a service.
EnvDeleteService(id) ==
    /\ id \in DOMAIN storeServices
    /\ storeServices' = Del(storeServices, id)
    /\ deletedServices' = deletedServices \cup {id}
    /\ Written(Ev("DeleteService", storeServices[id]))
    /\ UNCHANGED <<storeTasks, storeNodes, storeCluster>>

\* The control API removes a node.
EnvDeleteNode(nodeID) ==
    /\ nodeID \in storeNodes
    /\ storeNodes' = storeNodes \ {nodeID}
    /\ Written(Ev("DeleteNode", [ID |-> nodeID]))
    /\ UNCHANGED <<storeServices, storeTasks, storeCluster, deletedServices>>

\* The dispatcher records a status an agent reported for a task.
EnvUpdateTaskStatus(id, state) ==
    /\ id \in DOMAIN storeTasks
    /\ StateLT(storeTasks[id].Status.State, state)
    /\ LET t == [storeTasks[id] EXCEPT !.Status = [State |-> state]]
       IN  /\ storeTasks' = Put(storeTasks, id, t)
           /\ Written(Ev("UpdateTask", t))
    /\ UNCHANGED <<storeServices, storeNodes, storeCluster, deletedServices>>

\* The control API removes a task (Server.RemoveTask).
EnvRemoveTask(id) ==
    /\ id \in DOMAIN storeTasks
    /\ storeTasks' = Del(storeTasks, id)
    /\ Written(Ev("DeleteTask", storeTasks[id]))
    /\ UNCHANGED <<storeServices, storeNodes, storeCluster, deletedServices>>

\* The control API updates the cluster object.
EnvUpdateCluster ==
    /\ storeCluster = ClusterObject(1)
    /\ storeCluster' = ClusterObject(2)
    /\ Written(Ev("UpdateCluster", ClusterObject(2)))
    /\ UNCHANGED <<storeServices, storeTasks, storeNodes, deletedServices>>

\* The steps of the goroutine that executes Run, up to the stop signal.
RunLoop ==
    \/ StartWatch
    \/ StartCluster
    \/ StartServices
    \/ StartTasks
    \/ StartFails
    \/ ReconcileView
    \/ ReconcileWrite
    \/ HandleUpdateCluster
    \/ HandleService
    \/ HandleDeleteService
    \/ HandleDeleteNode
    \/ DeleteNodeBatch
    \/ DeleteNodeUpdate
    \/ HandleUpdateTask
    \/ HandleOtherEvent
    \/ TickTasks

NextOrch ==
    \/ RunLoop
    \/ \E id \in OrchServiceIDs, static \in BOOLEAN, nodeID \in OrchNodeIDs \cup {""} :
         EnvCreateService(id, static, nodeID)
    \/ \E id \in OrchServiceIDs, nodeID \in OrchNodeIDs : EnvPinService(id, nodeID)
    \/ \E id \in OrchServiceIDs : EnvDeleteService(id)
    \/ \E nodeID \in OrchNodeIDs : EnvDeleteNode(nodeID)
    \/ \E id \in DOMAIN storeTasks, state \in ReportedStates : EnvUpdateTaskStatus(id, state)
    \/ \E id \in DOMAIN storeTasks : EnvRemoveTask(id)
    \/ EnvUpdateCluster

SpecOrch == InitOrch /\ [][NextOrch]_vars

----------------------------------------------------------------------------
\* ---- Static orchestrator: properties ----

\* The store holds exactly one task for the service, and it is the task of a
\* freshly created static service pinned to nodeID.
OnlyTaskOf(tk, serviceID, nodeID) ==
    \E id \in DOMAIN tk :
        /\ TasksOf(tk, serviceID) = {id}
        /\ tk[id].ServiceID = serviceID
        /\ tk[id].NodeID = nodeID
        /\ tk[id].Slot = 0
        /\ tk[id].DesiredState = "RUNNING"
        /\ tk[id].Status.State = "NEW"

\* The step is the Batch of a reconcileServices (at start-up or for a create
\* or update event) that was given service s, tracked as pinned to a node.
ProcessesService(s) ==
    /\ pc = "batch" /\ pc' # "batch"
    /\ \E i \in DOMAIN reconcileView.ids : reconcileView.ids[i] = s
    /\ s \in DOMAIN services
    /\ IsRelatedService(services[s])

\* C7: when the orchestrator processes a static service S of the store that
\* is pinned to a node N and had no task when reconcileServices read the
\* store (at start-up or on its create/update event), the store then holds
\* exactly one task of S, with ServiceID = S.ID, NodeID = N, Slot = 0,
\* DesiredState = Running and Status.State = New.
C7_StaticServiceCreation ==
    [][\A s \in OrchServiceIDs :
          (/\ s \in DOMAIN storeServices
           /\ IsRelatedService(storeServices[s])
           /\ TasksOf(reconcileView.tasks, s) = {}
           /\ ProcessesService(s))
          => OnlyTaskOf(storeTasks', s, storeServices[s].NodeID)]_vars

\* C7 witness: service s2, created pinned to n2 while the orchestrator runs,
\* has been given its task, next to s1 that got its task at start-up.
C7_Witness ==
    /\ "s2" \in DOMAIN storeServices
    /\ OnlyTaskOf(storeTasks, "s2", "n2")
    /\ OnlyTaskOf(storeTasks, "s1", "n1")

\* C8: a task the orchestrator creates for a static service without
\* certificate issuances carries exactly one materialized config reference,
\* "<taskID>-peer-group", and no task it creates carries two references with
\* the same ConfigID.
C8_OneMaterializedConfig ==
    [][\A id \in DOMAIN storeTasks' \ DOMAIN storeTasks :
          LET t == storeTasks'[id]
          IN  /\ (t.ServiceID \in DOMAIN storeServices
                  /\ IsStaticService(storeServices[t.ServiceID])
                  /\ storeServices[t.ServiceID].Spec.CertificateIssuances = <<>>)
                 => t.MaterializedConfigs = <<PeerGroupConfigID(id)>>
              /\ \A i, j \in DOMAIN t.MaterializedConfigs :
                    t.MaterializedConfigs[i] = t.MaterializedConfigs[j] => i = j]_vars

\* C9: once the orchestrator has marked a service "Static Node Removed", the
\* store holds no task of that service bound to the removed node, also while
\* the orchestrator consumes the events of its own writes.
C9_NodeRemoval ==
    \A s \in DOMAIN storeServices :
        storeServices[s].Message = "Static Node Removed"
        => \A id \in TasksOf(storeTasks, s) : storeTasks[id].NodeID # storeServices[s].NodeID

\* handleTaskChange queues the task of the event.
Queues(t) ==
    /\ t.ServiceID \in DOMAIN services
    /\ StateLE(t.DesiredState, "RUNNING")
    /\ StateLT("RUNNING", t.Status.State)

\* An UpdateTask event is queued iff its task belongs to a tracked service,
\* has DesiredState <= Running and Status.State > Running.
QueuedIff ==
    (pc = "recv" /\ nwrites' = nwrites /\ watch # <<>> /\ Head(watch).kind = "UpdateTask")
    => (Head(watch).obj.ID \in restartTasks' <=> Queues(Head(watch).obj))

\* C10 as stated: an UpdateTask event is queued iff tracked, DesiredState <=
\* Running and State > Running; the tickTasks that follows restarts every
\* queued task that still exists with its service exactly once and leaves
\* restartTasks empty.
C10_RestartOnRegression ==
    [][/\ QueuedIff
       /\ (pc = "tick" /\ pc' = "recv")
          => /\ \A id \in restartTasks :
                   (id \in DOMAIN storeTasks
                    /\ storeTasks[id].ServiceID \in DOMAIN storeServices)
                   => CountIn(restarts', id) = 1
             /\ restartTasks' = {}]_vars

\* C10: an UpdateTask event is queued iff tracked, DesiredState <= Running and
\* State > Running; the tickTasks that follows restarts exactly once every
\* queued task that still exists with its service and whose DesiredState in
\* the store is still at most Running, restarts no other task, and leaves
\* restartTasks empty.
C10_RestartWhileDesired ==
    [][/\ QueuedIff
       /\ (pc = "tick" /\ pc' = "recv")
          => /\ \A id \in restartTasks :
                   CountIn(restarts', id) =
                       IF /\ id \in DOMAIN storeTasks
                          /\ storeTasks[id].ServiceID \in DOMAIN storeServices
                          /\ StateLE(storeTasks[id].DesiredState, "RUNNING")
                       THEN 1 ELSE 0
             /\ SeqToSet(restarts') \subseteq restartTasks
             /\ restartTasks' = {}]_vars

\* C10 witness: the task the orchestrator created for s1 failed, its event
\* was queued and tickTasks handed it to the restart supervisor.
C10_Witness ==
    /\ pc = "recv"
    /\ restarts = <<NewID(1)>>
    /\ NewID(1) \in DOMAIN storeTasks
    /\ storeTasks[NewID(1)].Status.State = "FAILED"
    /\ storeTasks[NewID(1)].DesiredState = "SHUTDOWN"

----------------------------------------------------------------------------
\* ---- orchestrator.IsTaskDirty ----

\* Placement constraint expressions, as the words the parser splits them in.
ExprV1 == <<"node.labels.k", "==", "v1">>

ExprV2 == <<"node.labels.k", "==", "v2">>

ExprBad == <<"node.labels.k", "v2">>

\* *api.Placement: nil, or a placement with its constraints.
NilPlacement == [IsNil |-> TRUE, Constraints |-> <<>>]

PlacementOf(constraints) == [IsNil |-> FALSE, Constraints |-> constraints]

Placements == {NilPlacement, PlacementOf(<<ExprV1>>), PlacementOf(<<ExprV2>>),
               PlacementOf(<<ExprBad>>)}

\* *api.Node: nil, or a node with its labels.
NilNode == [IsNil |-> TRUE, Labels |-> EmptyMap]

NodeWith(v) == [IsNil |-> FALSE, Labels |-> Put(EmptyMap, "k", v)]

DirtyNodes == {NilNode, NodeWith("v1"), NodeWith("v2")}

\* api.TaskSpec with a container runtime.
DirtyTaskSpec(image, pull, placement) ==
    [HasContainer |-> TRUE, Image |-> image, PullOptions |-> pull, Placement |-> placement]

\* The services, tasks and nodes IsTaskDirty is called with.
DirtyServices ==
    {[SpecVersion |-> v, Spec |-> [Task |-> DirtyTaskSpec(image, pull, pl), Endpoint |-> "e1"]] :
        v \in {NilVersion, VersionAt(1), VersionAt(2)}, image \in {"a", "b"},
        pull \in {"p1", "p2"}, pl \in Placements}

DirtyTasks ==
    {[SpecVersion |-> v, Spec |-> DirtyTaskSpec("a", "p1", pl),
      Endpoint |-> [IsNil |-> ep = "nil", Spec |-> ep],
      DesiredState |-> ds, Status |-> [State |-> st]] :
        v \in {NilVersion, VersionAt(1), VersionAt(2)}, pl \in Placements,
        ep \in {"nil", "e1", "e2"}, ds \in {"RUNNING", "SHUTDOWN"},
        st \in {"NEW", "RUNNING", "FAILED"}}

\* constraint.Parse: every expression must be key, operator, value; otherwise
\* it returns an error and no constraints.
ParseExpr(e) == [key |-> e[1], op |-> e[2], exp |-> e[3]]

ValidExpr(e) == Len(e) = 3 /\ e[2] \in {"==", "!="}

Parse(exprs) ==
    IF \A i \in DOMAIN exprs : ValidExpr(exprs[i])
    THEN [i \in DOMAIN exprs |-> ParseExpr(exprs[i])]
    ELSE <<>>

\* constraint.NodeMatches: the node satisfies every constraint.
ConstraintMatch(c, n) ==
    LET val == IF "k" \in DOMAIN n.Labels /\ c.key = "node.labels.k" THEN n.Labels["k"] ELSE ""
    IN  IF c.op = "==" THEN val = c.exp ELSE val # c.exp

NodeMatches(constraints, n) ==
    \A i \in DOMAIN constraints : ConstraintMatch(constraints[i], n)

\* A returned boolean, or the fault of a nil dereference.
Returns(b) == [panic |-> FALSE, ret |-> b]

Panics == [panic |-> TRUE, ret |-> FALSE]

\* orchestrator.nodeMatches: s.Spec.Task.Placement is dereferenced without a
\* nil check.
nodeMatches(s, n) ==
    IF n.IsNil THEN Returns(FALSE)
    ELSE IF s.Spec.Task.Placement.IsNil THEN Panics
    ELSE Returns(NodeMatches(Parse(s.Spec.Task.Placement.Constraints), n))

\* orchestrator.IsTaskDirtyPlacementConstraintsOnly
IsTaskDirtyPlacementConstraintsOnly(serviceTaskSpec, t) ==
    IF serviceTaskSpec.Placement = t.Spec.Placement THEN FALSE
    ELSE [serviceTaskSpec EXCEPT !.Placement = t.Spec.Placement] = t.Spec

\* IsTaskDirty, lines 170-188: the comparison with PullOptions ignored for a
\* task that has pulled its image.
DirtyCompare(s, t) ==
    LET ignorePullOpts == /\ StateLE(t.DesiredState, "RUNNING")
                          /\ StateLE("READY", t.Status.State)
                          /\ StateLE(t.Status.State, "RUNNING")
        serviceTaskSpec ==
            IF ignorePullOpts /\ s.Spec.Task.HasContainer /\ t.Spec.HasContainer
            THEN [s.Spec.Task EXCEPT !.PullOptions = t.Spec.PullOptions]
            ELSE s.Spec.Task
    IN  \/ serviceTaskSpec # t.Spec
        \/ (~t.Endpoint.IsNil /\ s.Spec.Endpoint # t.Endpoint.Spec)

\* Mutant of IsTaskDirty: equal spec versions are not looked at.
IsTaskDirty_NoVersion(s, t, n) ==
    IF IsTaskDirtyPlacementConstraintsOnly(s.Spec.Task, t)
    THEN (IF nodeMatches(s, n).panic THEN Panics
          ELSE IF nodeMatches(s, n).ret THEN Returns(FALSE)
          ELSE Returns(DirtyCompare(s, t)))
    ELSE Returns(DirtyCompare(s, t))

\* orchestrator.IsTaskDirty
IsTaskDirty(s, t, n) ==
    IF t.SpecVersion.Set /\ s.SpecVersion.Set /\ s.SpecVersion.Index = t.SpecVersion.Index
    THEN Returns(FALSE)
    ELSE IF IsTaskDirtyPlacementConstraintsOnly(s.Spec.Task, t)
    THEN (IF nodeMatches(s, n).panic THEN Panics
          ELSE IF nodeMatches(s, n).ret THEN Returns(FALSE)
          ELSE Returns(DirtyCompare(s, t)))
    ELSE Returns(DirtyCompare(s, t))

\* The other subsystems while a function is called on its own.
AllIdle ==
    /\ AssignIdle
    /\ StoreIdle
    /\ OrchIdle
    /\ WatchIdle
    /\ StopIdle
    /\ AgentIdle
    /\ ReconcileIdle

InitDirty ==
    /\ \E s \in DirtyServices, t \in DirtyTasks, n \in DirtyNodes :
           pin = [fn |-> "IsTaskDirty", s |-> s, t |-> t, n |-> n]
    /\ pout = [done |-> FALSE]
    /\ AllIdle

CallIsTaskDirty ==
    /\ pin.fn = "IsTaskDirty" /\ ~pout.done
    /\ pout' = [done |-> TRUE, res |-> IsTaskDirty(pin.s, pin.t, pin.n)]
    /\ UNCHANGED <<pin, avars, svars, ovars, wvars, pvars, gvars>>

NextDirty == CallIsTaskDirty

SpecDirty == InitDirty /\ [][NextDirty]_vars

\* The spec versions of the call are equal in the claim's sense: both unset,
\* or both set to the same index.
SameSpecVersion == pin.s.SpecVersion = pin.t.SpecVersion

\* C11 as stated: IsTaskDirty returns false whenever the spec versions of
\* service and task are equal, both unset included.
C11_SameVersionClean ==
    (pout.done /\ SameSpecVersion) => pout.res = Returns(FALSE)

\* C11: IsTaskDirty returns false whenever the spec versions of service and
\* task are both set and equal, whatever the other fields of s, t and n.
C11_SetVersionClean ==
    (pout.done /\ SameSpecVersion /\ pin.s.SpecVersion.Set) => pout.res = Returns(FALSE)

\* C11 witness: equal set versions, different images and placements, a nil
\* node: the call returned false.
C11_Witness ==
    /\ pout.done /\ pin.s.SpecVersion = VersionAt(2) /\ pin.t.SpecVersion = VersionAt(2)
    /\ pin.s.Spec.Task.Image # pin.t.Spec.Image
    /\ pin.s.Spec.Task.Placement # pin.t.Spec.Placement
    /\ pin.n.IsNil
    /\ pout.res = Returns(FALSE)

\* The service's task spec differs from the task's spec in its placement only.
PlacementOnly ==
    /\ pin.s.Spec.Task.Placement # pin.t.Spec.Placement
    /\ [pin.s.Spec.Task EXCEPT !.Placement = pin.t.Spec.Placement] = pin.t.Spec

\* The node of the call satisfies the service's placement constraints.
NodeSatisfies ==
    /\ ~pin.n.IsNil
    /\ NodeMatches(Parse(pin.s.Spec.Task.Placement.Constraints), pin.n)

\* C12: with a placement-only difference, IsTaskDirty returns false when the
\* task's node satisfies the service's constraints, and returns true when the
\* node is nil or does not satisfy them and the spec versions differ.
C12_PlacementOnly ==
    (pout.done /\ PlacementOnly)
    => /\ NodeSatisfies => pout.res = Returns(FALSE)
       /\ (~NodeSatisfies /\ ~SameSpecVersion) => pout.res = Returns(TRUE)

----------------------------------------------------------------------------
\* ---- orchestrator.NewTask ----

\* The clusters, services, slots and node ids NewTask is called with.
NewTaskClusters ==
    {NilCluster, ClusterObject(1), [ClusterObject(1) EXCEPT !.LogDriver = "nil"]}

NewTaskServices ==
    {[OrchService(id, static, "") EXCEPT !.Spec.LogDriver = drv, !.SpecVersion = v] :
        id \in OrchServiceIDs, static \in BOOLEAN, drv \in {"nil", "json"},
        v \in {NilVersion, VersionAt(1), VersionAt(2)}}

NewTaskSlots == {0, 1, 2}

InitNewTask ==
    /\ \E c \in NewTaskClusters, s \in NewTaskServices, slot \in NewTaskSlots,
          node \in OrchNodeIDs \cup {""}, n \in {1, 2} :
           pin = [fn |-> "NewTask", c |-> c, s |-> s, slot |-> slot, node |-> node,
                  id |-> NewID(n)]
    /\ pout = [done |-> FALSE]
    /\ AllIdle

CallNewTask ==
    /\ pin.fn = "NewTask" /\ ~pout.done
    /\ pout' = [done |-> TRUE, task |-> NewTask(pin.c, pin.s, pin.slot, pin.node, pin.id)]
    /\ UNCHANGED <<pin, avars, svars, ovars, wvars, pvars, gvars>>

NextNewTask == CallNewTask

SpecNewTask == InitNewTask /\ [][NextNewTask]_vars

\* C13: the task NewTask(c, s, slot, node) returns has ServiceID = s.ID,
\* Slot = slot, NodeID = node, DesiredState = Running, Status.State = New,
\* Spec and SpecVersion copied from s, and as LogDriver the driver of the
\* service's task spec if set, else the cluster default if c is not nil, else
\* none.
C13_NewTaskFields ==
    pout.done =>
        /\ pout.task.ServiceID = pin.s.ID
        /\ pout.task.Slot = pin.slot
        /\ pout.task.NodeID = pin.node
        /\ pout.task.DesiredState = "RUNNING"
        /\ pout.task.Status.State = "NEW"
        /\ pout.task.Spec = pin.s.Spec
        /\ pout.task.SpecVersion = pin.s.SpecVersion
        /\ (pin.s.Spec.LogDriver # "nil" => pout.task.LogDriver = pin.s.Spec.LogDriver)
        /\ (pin.s.Spec.LogDriver = "nil" /\ pin.c # NilCluster
            => pout.task.LogDriver = pin.c.LogDriver)
        /\ (pin.s.Spec.LogDriver = "nil" /\ pin.c = NilCluster
            => pout.task.LogDriver = "nil")

\* C13 witness: a service with its own log driver, a cluster with another
\* default, slot 2 and no node: the task carries the service's driver.
C13_Witness ==
    /\ pout.done
    /\ pin.c = ClusterObject(1) /\ pin.s.Spec.LogDriver = "json"
    /\ pin.slot = 2 /\ pin.node = ""
    /\ pout.task.LogDriver = "json" /\ pout.task.Slot = 2 /\ pout.task.NodeID = ""

----------------------------------------------------------------------------
\* ---- MemoryStore.Update and the watch queue ----

\* Update transactions begun in all.
MaxTx == 3

\* The changes one transaction makes at most.
TxChanges == {1, 2}

\* The n-th change of transaction tx.
TxEvent(tx, n) == [tx |-> tx, n |-> n]

\* Mutant of CanBegin: the update lock is not taken into account.
CanBegin_NoLock(w) == txs[w].pc = "idle"

\* MemoryStore.update: the update lock serialises write transactions.
CanBegin(w) == txs[w].pc = "idle" /\ updateLock = "free"

\* queue.Publish: the event joins the buffer of every subscriber.
Publish(ss, ev) == [sub \in Subscribers |-> [ss[sub] EXCEPT !.buf = Append(@, ev)]]

InitWatch ==
    /\ WatchIdle
    /\ StopIdle
    /\ AgentIdle
    /\ ReconcileIdle
    /\ AssignIdle
    /\ StoreIdle
    /\ OrchIdle
    /\ FnIdle

\* Update(cb) starts: lock, new transaction.
TxBegin(w) ==
    /\ ntx < MaxTx
    /\ CanBegin(w)
    /\ ntx' = ntx + 1
    /\ updateLock' = w
    /\ txs' = [txs EXCEPT ![w] = [pc |-> "tx", changelist |-> <<>>, next |-> 1, id |-> ntx + 1]]
    /\ UNCHANGED <<commitLog, subs, avars, svars, ovars, fvars, pvars, gvars>>

\* cb makes a change (tx.create, tx.update or tx.delete): it joins the
\* changelist of the transaction.
TxChange(w) ==
    /\ txs[w].pc = "tx"
    /\ Len(txs[w].changelist) + 1 \in TxChanges
    /\ txs' = [txs EXCEPT ![w].changelist =
                   Append(@, TxEvent(txs[w].id, Len(txs[w].changelist) + 1))]
    /\ UNCHANGED <<updateLock, commitLog, subs, ntx, avars, svars, ovars, fvars, pvars, gvars>>

\* cb returns an error: the transaction is aborted, nothing is published.
TxAbort(w) ==
    /\ txs[w].pc = "tx"
    /\ txs' = [txs EXCEPT ![w] = [pc |-> "idle", changelist |-> <<>>, next |-> 1]]
    /\ updateLock' = IF updateLock = w THEN "free" ELSE updateLock
    /\ UNCHANGED <<commitLog, subs, ntx, avars, svars, ovars, fvars, pvars, gvars>>

\* cb returns nil: the transaction commits.
TxCommit(w) ==
    /\ txs[w].pc = "tx"
    /\ commitLog' = commitLog \o txs[w].changelist
    /\ txs' = [txs EXCEPT ![w].pc = "publish"]
    /\ UNCHANGED <<updateLock, subs, ntx, avars, svars, ovars, fvars, pvars, gvars>>

\* After the commit the changelist is published, one event at a time.
TxPublish(w) ==
    /\ txs[w].pc = "publish"
    /\ txs[w].next <= Len(txs[w].changelist)
    /\ subs' = Publish(subs, txs[w].changelist[txs[w].next])
    /\ txs' = [txs EXCEPT ![w].next = @ + 1]
    /\ UNCHANGED <<updateLock, commitLog, ntx, avars, svars, ovars, fvars, pvars, gvars>>

\* Update returns: the lock is released.
TxEnd(w) ==
    /\ txs[w].pc = "publish"
    /\ txs[w].next > Len(txs[w].changelist)
    /\ txs' = [txs EXCEPT ![w] = [pc |-> "idle", changelist |-> <<>>, next |-> 1]]
    /\ updateLock' = IF updateLock = w THEN "free" ELSE updateLock
    /\ UNCHANGED <<commitLog, subs, ntx, avars, svars, ovars, fvars, pvars, gvars>>

\* A subscriber receives the next event from its watch channel.
Receive(sub) ==
    /\ subs[sub].buf # <<>>
    /\ subs' = [subs EXCEPT ![sub] = [buf |-> Tail(@.buf), recv |-> Append(@.recv, Head(@.buf))]]
    /\ UNCHANGED <<txs, updateLock, commitLog, ntx, avars, svars, ovars, fvars, pvars, gvars>>

NextWatch ==
    \/ \E w \in Writers : TxBegin(w)
    \/ \E w \in Writers : TxChange(w)
    \/ \E w \in Writers : TxAbort(w)
    \/ \E w \in Writers : TxCommit(w)
    \/ \E w \in Writers : TxPublish(w)
    \/ \E w \in Writers : TxEnd(w)
    \/ \E sub \in Subscribers : Receive(sub)

SpecWatch == InitWatch /\ [][NextWatch]_vars

\* p is a prefix of q.
IsPrefix(p, q) == Len(p) <= Len(q) /\ \A i \in 1..Len(p) : p[i] = q[i]

\* C14: what a subscriber has received, followed by what is buffered for it,
\* is a prefix of the events of the committed transactions in commit order:
\* events arrive in commit order, the events of one transaction contiguously
\* and in its order, and none before its transaction has committed.
C14_EventOrder ==
    \A sub \in Subscribers : IsPrefix(subs[sub].recv \o subs[sub].buf, commitLog)

\* C14 witness: two transactions with two changes each have committed, one
\* writer's transaction was aborted in between, and a subscriber has received
\* all four events while the other has received none.
C14_Witness ==
    /\ commitLog = <<TxEvent(1, 1), TxEvent(1, 2), TxEvent(3, 1), TxEvent(3, 2)>>
    /\ subs["orchestrator"].recv = commitLog
    /\ subs["dispatcher"].recv = <<>>

----------------------------------------------------------------------------
\* ---- controlapi Server.CreateTask ----

\* api.CreateTaskRequest: whether Spec and Annotations are given and valid,
\* the secrets and configs the container references, the log driver.
CreateTaskRequests ==
    {[Valid |-> valid, Secrets |-> secrets, Configs |-> configs, LogDriver |-> drv] :
        valid \in BOOLEAN, secrets \in {<<>>, <<"x">>}, configs \in {<<>>, <<"c">>},
        drv \in {"nil", "json"}}

\* Server.checkSecretExistence / Server.checkConfigExistence: every referenced
\* object is in the store.
checkSecretExistence(st, req) == \A i \in DOMAIN req.Secrets : req.Secrets[i] \in DOMAIN st.secrets

checkConfigExistence(st, req) == \A i \in DOMAIN req.Configs : req.Configs[i] \in st.configs

\* The stand-alone task CreateTask builds.
StandaloneTask(req, taskID, drv) ==
    [ID |-> taskID, ServiceID |-> "", Slot |-> 0, NodeID |-> "",
     Spec |-> [Secrets |-> req.Secrets, Configs |-> req.Configs, LogDriver |-> req.LogDriver],
     Status |-> [State |-> "NEW"], DesiredState |-> "RUNNING",
     LogDriver |-> drv, IsStandalone |-> TRUE]

\* The outcome of a call: status code, task table, events published.
CreateTaskResult(err, tasks, events) == [err |-> err, tasks |-> tasks, events |-> events]

\* Mutant of CreateTask: the configs are not checked.
CreateTask_NoConfigCheck(st, tasks, cl, req, taskID) ==
    IF ~req.Valid THEN CreateTaskResult("InvalidArgument", tasks, <<>>)
    ELSE IF ~checkSecretExistence(st, req) THEN CreateTaskResult("InvalidArgument", tasks, <<>>)
    ELSE IF req.LogDriver = "nil" /\ cl = NilCluster
    THEN CreateTaskResult("Internal", tasks, <<>>)
    ELSE LET drv == IF req.LogDriver # "nil" THEN req.LogDriver ELSE cl.LogDriver
             tx == txCreateTask(OStore(EmptyMap, tasks, <<>>), StandaloneTask(req, taskID, drv))
         IN  CreateTaskResult("OK", tx.tasks, tx.events)

\* Server.CreateTask: validation, then the Update transaction; a callback
\* error leaves the table as it was and publishes nothing.
CreateTask(st, tasks, cl, req, taskID) ==
    IF ~req.Valid THEN CreateTaskResult("InvalidArgument", tasks, <<>>)
    ELSE IF ~checkSecretExistence(st, req) THEN CreateTaskResult("InvalidArgument", tasks, <<>>)
    ELSE IF ~checkConfigExistence(st, req) THEN CreateTaskResult("InvalidArgument", tasks, <<>>)
    ELSE IF req.LogDriver = "nil" /\ cl = NilCluster
    THEN CreateTaskResult("Internal", tasks, <<>>)
    ELSE LET drv == IF req.LogDriver # "nil" THEN req.LogDriver ELSE cl.LogDriver
             tx == txCreateTask(OStore(EmptyMap, tasks, <<>>), StandaloneTask(req, taskID, drv))
         IN  CreateTaskResult("OK", tx.tasks, tx.events)

\* api.RemoveTaskRequest: no id, the id of the earlier task, an unknown id.
RemoveTaskRequests == {[TaskID |-> id] : id \in {"", NewID(1), NewID(2)}}

\* Server.RemoveTask: the Update transaction whose callback is
\* store.DeleteTask; ErrNotExist is answered with NotFound.
ServerRemoveTask(tasks, req) ==
    IF req.TaskID = "" THEN CreateTaskResult("InvalidArgument", tasks, <<>>)
    ELSE IF req.TaskID \notin DOMAIN tasks THEN CreateTaskResult("NotFound", tasks, <<>>)
    ELSE LET tx == txDeleteTask(OStore(EmptyMap, tasks, <<>>), req.TaskID)
         IN  CreateTaskResult("OK", tx.tasks, tx.events)

\* The stores CreateTask and RemoveTask are called on: with or without secret
\* x, config c, the default cluster and an earlier task.
InitCreateTask ==
    /\ \/ \E req \in CreateTaskRequests : pin = [fn |-> "CreateTask", req |-> req]
       \/ \E req \in RemoveTaskRequests : pin = [fn |-> "RemoveTask", req |-> req]
    /\ pout = [done |-> FALSE]
    /\ \E secrets \in SUBSET SecretIDs, configs \in SUBSET ConfigIDs :
           rstore = [secrets |-> [id \in secrets |-> [Driver |-> "none"]],
                     configs |-> configs, cas |-> EmptyMap, services |-> EmptyMap]
    /\ storeCluster \in {NilCluster, ClusterObject(1)}
    /\ \E earlier \in BOOLEAN :
           /\ storeTasks = IF earlier
                           THEN Put(EmptyMap, NewID(1),
                                    StandaloneTask([Secrets |-> <<>>, Configs |-> <<>>,
                                                    LogDriver |-> "json"], NewID(1), "json"))
                           ELSE EmptyMap
           /\ nextID = IF earlier THEN 1 ELSE 0
    /\ tasksMap = EmptyMap
    /\ tasksUsingDependency = EmptyMap
    /\ changes = EmptyMap
    /\ lastCall = NoCall
    /\ ncalls = 0
    /\ panicked = FALSE
    /\ storeServices = EmptyMap
    /\ storeNodes = {}
    /\ deletedServices = {}
    /\ watch = <<>>
    /\ pc = "init"
    /\ services = EmptyMap
    /\ servicesByNodeID = EmptyMap
    /\ restartTasks = {}
    /\ cluster = NilCluster
    /\ nwrites = 0
    /\ restarts = <<>>
    /\ StoreIdle
    /\ WatchIdle
    /\ StopIdle
    /\ AgentIdle
    /\ ReconcileIdle

CallCreateTask ==
    /\ pin.fn = "CreateTask" /\ ~pout.done
    /\ LET r == CreateTask(rstore, storeTasks, storeCluster, pin.req, NewID(nextID + 1))
       IN  /\ pout' = [done |-> TRUE, err |-> r.err]
           /\ storeTasks' = r.tasks
           /\ watch' = watch \o r.events
    /\ nextID' = nextID + 1
    /\ UNCHANGED <<pin, avars, svars, wvars, pvars, gvars, storeServices, storeNodes, storeCluster,
                   deletedServices, pc, services, servicesByNodeID, restartTasks, cluster,
                   nwrites, restarts>>

CallRemoveTask ==
    /\ pin.fn = "RemoveTask" /\ ~pout.done
    /\ LET r == ServerRemoveTask(storeTasks, pin.req)
       IN  /\ pout' = [done |-> TRUE, err |-> r.err]
           /\ storeTasks' = r.tasks
           /\ watch' = watch \o r.events
    /\ UNCHANGED <<pin, avars, svars, wvars, pvars, gvars, storeServices, storeNodes, storeCluster,
                   deletedServices, pc, services, servicesByNodeID, restartTasks, cluster,
                   nextID, nwrites, restarts>>

NextCreateTask ==
    \/ CallCreateTask
    \/ CallRemoveTask

SpecCreateTask == InitCreateTask /\ [][NextCreateTask]_vars

\* The request references a secret or a config that is not in the store.
MissingReference ==
    /\ pin.fn = "CreateTask"
    /\ \/ \E i \in DOMAIN pin.req.Secrets : pin.req.Secrets[i] \notin DOMAIN rstore.secrets
       \/ \E i \in DOMAIN pin.req.Configs : pin.req.Configs[i] \notin rstore.configs

\* A failed call leaves the task table unchanged and publishes no event.
FailureCommitsNothing ==
    pout'.err # "OK" => storeTasks' = storeTasks /\ watch' = watch

\* C15 as stated: CreateTask returns an error when a referenced secret or
\* config does not exist or when there is no default cluster, and a call of
\* CreateTask or RemoveTask that returns an error leaves the task table
\* unchanged and publishes no event.
C15_CreateTaskError ==
    [][pout'.done
       => /\ (pin.fn = "CreateTask" /\ (MissingReference \/ storeCluster = NilCluster))
             => pout'.err # "OK"
          /\ FailureCommitsNothing]_vars

\* C15: CreateTask returns an error when a referenced secret or config does
\* not exist, or when the request has no log driver of its own and there is no
\* default cluster; a call of CreateTask or RemoveTask that returns an error
\* leaves the task table unchanged and publishes no event.
C15_CreateTaskErrorLookup ==
    [][pout'.done
       => /\ (pin.fn = "CreateTask"
              /\ (MissingReference \/ (pin.req.LogDriver = "nil" /\ storeCluster = NilCluster)))
             => pout'.err # "OK"
          /\ FailureCommitsNothing]_vars

\* C15 witness: a valid request referencing config c, which the store lacks,
\* was refused: the earlier task is still the only one, nothing was published.
C15_Witness ==
    /\ pin.fn = "CreateTask" /\ pout.done /\ pout.err = "InvalidArgument"
    /\ pin.req.Valid /\ pin.req.Configs = <<"c">> /\ "c" \notin rstore.configs
    /\ pin.req.Secrets = <<"x">> /\ "x" \in DOMAIN rstore.secrets
    /\ DOMAIN storeTasks = {NewID(1)}
    /\ watch = <<>>

----------------------------------------------------------------------------
\* ---- Orchestrator.Stop ----

\* No call of Stop has faulted; a fault ends the process.
NoStopPanic == \A c \in Stoppers : stopPc[c] # "panic"

\* Stop, close(o.stopChan): closing a closed channel is a run-time panic.
StopClose(c) ==
    /\ NoStopPanic /\ stopPc[c] = "idle"
    /\ IF stopChan = "open"
       THEN stopChan' = "closed" /\ stopPc' = [stopPc EXCEPT ![c] = "wait"]
       ELSE stopChan' = stopChan /\ stopPc' = [stopPc EXCEPT ![c] = "panic"]
    /\ UNCHANGED <<doneChan, avars, svars, ovars, fvars, wvars, gvars>>

\* Stop, <-o.doneChan, then updater.CancelAll and restarts.CancelAll.
StopWait(c) ==
    /\ NoStopPanic /\ stopPc[c] = "wait"
    /\ doneChan = "closed"
    /\ stopPc' = [stopPc EXCEPT ![c] = "done"]
    /\ restarts' = <<>>
    /\ UNCHANGED <<stopChan, doneChan, avars, svars, fvars, wvars, gvars, storeServices, storeTasks,
                   storeNodes, storeCluster, deletedServices, watch, pc, services,
                   servicesByNodeID, restartTasks, cluster, nextID, nwrites>>

\* Mutant of RunStopped: the select prefers the watcher, so the stop signal
\* is taken only when no event is queued.
RunStopped_EventsFirst ==
    /\ NoStopPanic /\ pc = "recv" /\ stopChan = "closed"
    /\ watch = <<>>
    /\ pc' = "done"
    /\ doneChan' = "closed"
    /\ UNCHANGED <<stopChan, stopPc, avars, svars, fvars, wvars, gvars, storeServices, storeTasks,
                   storeNodes, storeCluster, deletedServices, watch, services,
                   servicesByNodeID, restartTasks, cluster, nextID, nwrites, restarts>>

\* Run, case <-o.stopChan: return nil; the deferred close(o.doneChan) runs.
RunStopped ==
    /\ NoStopPanic /\ pc = "recv" /\ stopChan = "closed"
    /\ pc' = "done"
    /\ doneChan' = "closed"
    /\ UNCHANGED <<stopChan, stopPc, avars, svars, fvars, wvars, gvars, storeServices, storeTasks,
                   storeNodes, storeCluster, deletedServices, watch, services,
                   servicesByNodeID, restartTasks, cluster, nextID, nwrites, restarts>>

\* The steps of the goroutine that executes Run.
RunStep ==
    \/ RunLoop
    \/ RunStopped

\* The writes of the other components on service s1, node n1 and the tasks.
StopWriters ==
    \/ EnvCreateService("s1", TRUE, "n1")
    \/ EnvDeleteService("s1")
    \/ EnvDeleteNode("n1")
    \/ \E id \in DOMAIN storeTasks : EnvUpdateTaskStatus(id, "FAILED")
    \/ EnvUpdateCluster

NextStop ==
    \/ RunStep
    \/ StopWriters
    \/ \E c \in Stoppers : StopClose(c)
    \/ \E c \in Stoppers : StopWait(c)

SpecStop == InitOrch /\ [][NextStop]_vars

\* C16: a call of Stop made after the loop has started never faults, and once
\* a call of Stop has returned the loop has terminated.
C16_StopIdempotent ==
    /\ \A c \in Stoppers : stopPc[c] = "panic" => pc = "init"
    /\ \A c \in Stoppers : stopPc[c] = "done" => pc = "done" /\ doneChan = "closed"

----------------------------------------------------------------------------
\* ---- controlapi: certificate authorities and peer groups ----

\* Names given in requests; ids that identity.NewID may return, as characters.
ControlNames == {<<"a">>, <<"A">>, <<"a", "b">>}

ControlCAIDs == {<<"c", "1">>, <<"c", "2">>}

ControlPeerGroupIDs == {"p1", "p2"}

\* The private key initca.New generates for the CA created under id.
KeyOf(id) == IF id = <<"c", "1">> THEN "key1" ELSE "key2"

\* api.CertificateAuthority; the nil pointer.
CertificateAuthority(id, name, key) == [ID |-> id, Name |-> name, Cert |-> "cert", Key |-> key]

NilCA == CertificateAuthority(<<>>, <<>>, "nil")

\* store.CreateCA
CreateCA(cas, ca) ==
    IF lookup(cas, ToLower(ca.Name)) # {} THEN [err |-> "ErrNameConflict", table |-> cas]
    ELSE create(cas, ca.ID, ca)

\* store.UpdateCA
UpdateCA(cas, ca) ==
    LET existing == lookup(cas, ToLower(ca.Name))
    IN  IF existing # {} /\ existing # {ca.ID} THEN [err |-> "ErrNameConflict", table |-> cas]
        ELSE update(cas, ca.ID, ca)

\* store.DeleteCA
DeleteCA(cas, id) == delete(cas, id)

\* store.GetCA: a copy of the stored object, or nil.
GetCA(cas, id) == IF id \in DOMAIN cas THEN cas[id] ELSE NilCA

\* store.FindCAs with store.All, and with the selectors buildFilters makes:
\* copies of the stored objects that match one of the given values.
FindAllCAs(cas) == {cas[id] : id \in DOMAIN cas}

FindCAsByName(cas, names) ==
    {cas[id] : id \in {x \in DOMAIN cas : \E n \in names : ToLower(cas[x].Name) = ToLower(n)}}

FindCAsByNamePrefix(cas, prefixes) ==
    {cas[id] : id \in {x \in DOMAIN cas :
                         \E p \in prefixes : IsPrefix(ToLower(p), ToLower(cas[x].Name))}}

FindCAsByIDPrefix(cas, prefixes) ==
    {cas[id] : id \in {x \in DOMAIN cas : \E p \in prefixes : IsPrefix(p, x)}}

\* filterContains / filterContainsPrefix: an empty list accepts everything.
filterContains(match, candidates) == candidates = {} \/ match \in candidates

filterContainsPrefix(match, prefixes) ==
    prefixes = {} \/ \E p \in prefixes : IsPrefix(p, match)

\* api.ListCAsRequest_Filters; NoFilters is the nil pointer.
NoFilters == [Set |-> FALSE, Names |-> {}, NamePrefixes |-> {}, IDPrefixes |-> {}]

ListCAsFilters ==
    {NoFilters} \cup
    {[Set |-> TRUE, Names |-> names, NamePrefixes |-> np, IDPrefixes |-> ip] :
        names \in {{}, {<<"A">>}}, np \in {{}, {<<"a">>}}, ip \in {{}, {<<"c">>}, {<<"c", "2">>}}}

\* The outcome of an RPC: status, the store error behind it, the objects in
\* the response, the table after the call.
Response(err, storeErr, objs, table) ==
    [err |-> err, storeErr |-> storeErr, objs |-> objs, table |-> table]

\* Server.CreateCA; generated tells whether initca.New returned a certificate
\* and a key.
ServerCreateCA(cas, req, id, generated) ==
    IF ~req.Valid THEN Response("InvalidArgument", "ok", {}, cas)
    ELSE IF ~generated THEN Response("Internal", "ok", {}, cas)
    ELSE LET certAuthority == CertificateAuthority(id, req.Name, KeyOf(id))
             r == CreateCA(cas, certAuthority)
         IN  IF r.err # "ok" THEN Response(r.err, r.err, {}, cas)
             ELSE Response("OK", "ok", {certAuthority}, r.table)

\* Mutant of ServerGetCA: the key is left in the response.
ServerGetCA_WithKey(cas, id) ==
    IF id = <<>> THEN Response("InvalidArgument", "ok", {}, cas)
    ELSE LET certAuthority == GetCA(cas, id)
         IN  IF certAuthority = NilCA THEN Response("NotFound", "ok", {}, cas)
             ELSE Response("OK", "ok", {certAuthority}, cas)

\* Server.GetCA
ServerGetCA(cas, id) ==
    IF id = <<>> THEN Response("InvalidArgument", "ok", {}, cas)
    ELSE LET certAuthority == GetCA(cas, id)
         IN  IF certAuthority = NilCA THEN Response("NotFound", "ok", {}, cas)
             ELSE Response("OK", "ok", {[certAuthority EXCEPT !.Key = "nil"]}, cas)

\* Server.RemoveCA
ServerRemoveCA(cas, id) ==
    IF id = <<>> THEN Response("InvalidArgument", "ok", {}, cas)
    ELSE LET r == DeleteCA(cas, id)
         IN  IF r.err = "ErrNotExist" THEN Response("NotFound", r.err, {}, cas)
             ELSE Response("OK", "ok", {}, r.table)

\* Server.ListCAs
ServerListCAs(cas, f) ==
    LET found == IF f.Set /\ f.Names # {} THEN FindCAsByName(cas, f.Names)
                 ELSE IF f.Set /\ f.NamePrefixes # {} THEN FindCAsByNamePrefix(cas, f.NamePrefixes)
                 ELSE IF f.Set /\ f.IDPrefixes # {} THEN FindCAsByIDPrefix(cas, f.IDPrefixes)
                 ELSE FindAllCAs(cas)
        certAuthorities ==
            IF ~f.Set THEN found
            ELSE {e \in found : /\ filterContains(e.Name, f.Names)
                                /\ filterContainsPrefix(e.Name, f.NamePrefixes)
                                /\ filterContainsPrefix(e.ID, f.IDPrefixes)}
    IN  Response("OK", "ok", {[e EXCEPT !.Key = "nil"] : e \in certAuthorities}, cas)

\* Server.CreatePeerGroup
ServerCreatePeerGroup(pgs, svcs, req, id) ==
    IF ~req.Valid THEN Response("InvalidArgument", "ok", {}, pgs)
    ELSE LET r == CreatePeerGroup(pgs, svcs, id, req.Name)
         IN  IF r.err # "ok" THEN Response(r.err, r.err, {}, pgs)
             ELSE Response("OK", "ok", {[ID |-> id, Name |-> req.Name]}, r.table)

\* Requests to create an object: a malformed one, and one per name.
CreateRequests == {[Valid |-> valid, Name |-> name] : valid \in BOOLEAN, name \in ControlNames}

InitControl ==
    /\ pin = [fn |-> "controlapi"]
    /\ pout = [done |-> FALSE]
    /\ tasksMap = EmptyMap
    /\ tasksUsingDependency = EmptyMap
    /\ changes = EmptyMap
    /\ rstore = [secrets |-> EmptyMap, configs |-> {}, cas |-> EmptyMap, services |-> EmptyMap]
    /\ lastCall = NoCall
    /\ ncalls = 0
    /\ panicked = FALSE
    /\ StoreIdle
    /\ OrchIdle
    /\ WatchIdle
    /\ StopIdle
    /\ AgentIdle
    /\ ReconcileIdle

\* What the caller of an RPC gets back.
Reply(rpc, r) == pout' = [done |-> TRUE, rpc |-> rpc, err |-> r.err, storeErr |-> r.storeErr,
                          objs |-> r.objs]

RpcCreateCA(req, id, generated) ==
    /\ pin.fn = "controlapi"
    /\ LET r == ServerCreateCA(rstore.cas, req, id, generated)
       IN  /\ rstore' = [rstore EXCEPT !.cas = r.table]
           /\ Reply("CreateCA", r)
    /\ UNCHANGED <<pin, tasksMap, tasksUsingDependency, changes, lastCall, ncalls, panicked,
                   svars, ovars, wvars, pvars, gvars>>

\* A store.Update whose callback is store.UpdateCA (a replicated store action):
\* the certificate authority of id under a new name.
StoreUpdateCA(id, name) ==
    /\ pin.fn = "controlapi"
    /\ LET r == UpdateCA(rstore.cas, CertificateAuthority(id, name, KeyOf(id)))
       IN  /\ rstore' = [rstore EXCEPT !.cas = r.table]
           /\ pout' = [done |-> TRUE, rpc |-> "UpdateCA", err |-> r.err, storeErr |-> r.err,
                       objs |-> {}]
    /\ UNCHANGED <<pin, tasksMap, tasksUsingDependency, changes, lastCall, ncalls, panicked,
                   svars, ovars, wvars, pvars, gvars>>

RpcGetCA(id) ==
    /\ pin.fn = "controlapi"
    /\ LET r == ServerGetCA(rstore.cas, id)
       IN  /\ rstore' = [rstore EXCEPT !.cas = r.table]
           /\ Reply("GetCA", r)
    /\ UNCHANGED <<pin, tasksMap, tasksUsingDependency, changes, lastCall, ncalls, panicked,
                   svars, ovars, wvars, pvars, gvars>>

RpcRemoveCA(id) ==
    /\ pin.fn = "controlapi"
    /\ LET r == ServerRemoveCA(rstore.cas, id)
       IN  /\ rstore' = [rstore EXCEPT !.cas = r.table]
           /\ Reply("RemoveCA", r)
    /\ UNCHANGED <<pin, tasksMap, tasksUsingDependency, changes, lastCall, ncalls, panicked,
                   svars, ovars, wvars, pvars, gvars>>

RpcListCAs(f) ==
    /\ pin.fn = "controlapi"
    /\ LET r == ServerListCAs(rstore.cas, f)
       IN  /\ rstore' = [rstore EXCEPT !.cas = r.table]
           /\ Reply("ListCAs", r)
    /\ UNCHANGED <<pin, tasksMap, tasksUsingDependency, changes, lastCall, ncalls, panicked,
                   svars, ovars, wvars, pvars, gvars>>

RpcCreatePeerGroup(req, id) ==
    /\ pin.fn = "controlapi"
    /\ LET r == ServerCreatePeerGroup(peerGroupTable, serviceTable, req, id)
       IN  /\ peerGroupTable' = r.table
           /\ Reply("CreatePeerGroup", r)
    /\ UNCHANGED <<pin, avars, serviceTable, lastOp, ovars, wvars, pvars, gvars>>

\* A service created through the store, whose name peer groups may not take.
RpcCreateService(name) ==
    /\ pin.fn = "controlapi"
    /\ LET r == CreateService(serviceTable, peerGroupTable, "s1", name)
       IN  /\ r.err = "ok"
           /\ serviceTable' = r.table
    /\ pout' = [done |-> TRUE, rpc |-> "CreateService", err |-> "OK", storeErr |-> "ok",
                objs |-> {}]
    /\ UNCHANGED <<pin, avars, peerGroupTable, lastOp, ovars, wvars, pvars, gvars>>

NextControl ==
    \/ \E req \in CreateRequests, id \in ControlCAIDs, generated \in BOOLEAN :
          RpcCreateCA(req, id, generated)
    \/ \E id \in ControlCAIDs, name \in ControlNames : StoreUpdateCA(id, name)
    \/ \E id \in ControlCAIDs \cup {<<>>} : RpcGetCA(id)
    \/ \E id \in ControlCAIDs \cup {<<>>} : RpcRemoveCA(id)
    \/ \E f \in ListCAsFilters : RpcListCAs(f)
    \/ \E req \in CreateRequests, id \in ControlPeerGroupIDs : RpcCreatePeerGroup(req, id)
    \/ \E name \in ControlNames : RpcCreateService(name)

SpecControl == InitControl /\ [][NextControl]_vars

\* C17: every certificate authority in a GetCA or ListCAs response has an
\* empty Key, while the certificate authority kept in the store under the
\* same id still holds its key.
C17_KeyNeverRead ==
    (pout.done /\ pout.rpc \in {"GetCA", "ListCAs"})
    => \A ca \in pout.objs : /\ ca.Key = "nil"
                             /\ ca.ID \in DOMAIN rstore.cas
                             /\ rstore.cas[ca.ID].Key = KeyOf(ca.ID)

\* C17 witness: ListCAs answered with two certificate authorities from a store
\* that holds the keys of both.
C17_Witness ==
    /\ pout.done /\ pout.rpc = "ListCAs" /\ pout.err = "OK"
    /\ {ca.ID : ca \in pout.objs} = ControlCAIDs
    /\ \A id \in ControlCAIDs : rstore.cas[id].Key = KeyOf(id)

\* C18: CreatePeerGroup and CreateCA return AlreadyExists when the store
\* reports a name conflict or an id collision, NotFound when it reports
\* ErrNotExist, and Internal for every other store error.
C18_ErrorTranslation ==
    (pout.done /\ pout.rpc \in {"CreatePeerGroup", "CreateCA"})
    => /\ pout.storeErr \in {"ErrNameConflict", "ErrExist"} => pout.err = "AlreadyExists"
       /\ pout.storeErr = "ErrNotExist" => pout.err = "NotFound"
       /\ pout.storeErr \notin {"ok", "ErrNameConflict", "ErrExist", "ErrNotExist"}
          => pout.err = "Internal"

----------------------------------------------------------------------------
\* ---- Assignment engine: dependencies missing when first referenced ----

\* A session in which task t1, in a state between Assigned and Running, was
\* added while the store held neither secret x nor config c.
InitIgnored ==
    /\ rstore = [secrets |-> EmptyMap, configs |-> {}, cas |-> EmptyMap,
                 services |-> ServiceTable({})]
    /\ \E st \in {"ASSIGNED", "RUNNING"} :
         LET r == addOrUpdateTask(EmptyMap, EmptyMap, EmptyMap, rstore,
                                  AssignTask("t1", st, "RUNNING"))
         IN  /\ tasksMap = r.tasksMap
             /\ tasksUsingDependency = r.tud
             /\ changes = r.changes
             /\ panicked = r.panicked
             /\ lastCall = [op |-> "addOrUpdateTask", id |-> "t1", ret |-> r.ret,
                            removes |-> r.removes, updates |-> r.updates, msg |-> EmptyMap]
    /\ ncalls = 1
    /\ StoreIdle
    /\ OrchIdle
    /\ FnIdle
    /\ WatchIdle
    /\ StopIdle
    /\ AgentIdle
    /\ ReconcileIdle

\* The dependencies appear; tasks referencing them are added or updated. No
\* task is removed or leaves the running states, and no message is taken, so
\* changes holds every change written since t1 was added.
NextIgnored ==
    \/ \E id \in AssignTaskIDs, st \in {"ASSIGNED", "RUNNING"}, ds \in InputDesired :
          AddOrUpdateTask(id, st, ds)
    \/ \E id \in SecretIDs, drv \in DriverKinds : StoreCreateSecret(id, drv)
    \/ \E id \in ConfigIDs : StoreCreateConfig(id)

SpecIgnored == InitIgnored /\ [][NextIgnored]_vars

\* An Update for the dependency is among the changes.
HasUpdate(chg, k) == k \in DOMAIN chg /\ chg[k].Action = "Update"

\* C19: when secret x (config c) was missing as the first task referencing it
\* was added and no Update for it has been written since, a later
\* addOrUpdateTask of a task referencing it, made while the store holds it,
\* places an Update for it in changes.
C19_DeliveredOnceAppears ==
    [][(lastCall'.op = "addOrUpdateTask" /\ ncalls' = ncalls + 1)
       => /\ (secret(rstore, "x").ok /\ ~HasUpdate(changes, Key("SECRET", "x")))
             => HasUpdate(changes', Key("SECRET", "x"))
          /\ ("c" \in rstore.configs /\ ~HasUpdate(changes, Key("CONFIG", "c")))
             => HasUpdate(changes', Key("CONFIG", "c"))]_vars

----------------------------------------------------------------------------
\* ---- Assignment engine: dependencies that cannot be materialized ----

\* t2 uses secret x and config c; t3 is the task of static service s1 and
\* requests a certificate from ca1.
IsolatedTaskIDs == {"t2", "t3"}

\* The certificate-authority tables: ca1 missing, usable, or unusable.
CAWorlds ==
    {EmptyMap} \cup {[id \in CAIDs |-> [Valid |-> valid]] : valid \in BOOLEAN}

\* A session on a store holding any of secret x (with any driver), config c
\* and ca1, and any of the service tables.
InitIsolated ==
    /\ tasksMap = EmptyMap
    /\ tasksUsingDependency = EmptyMap
    /\ changes = EmptyMap
    /\ \E secrets \in {EmptyMap} \cup {[id \in SecretIDs |-> [Driver |-> drv]] : drv \in DriverKinds},
          configs \in SUBSET ConfigIDs, cas \in CAWorlds, svcs \in ServiceWorlds :
         rstore = [secrets |-> secrets, configs |-> configs, cas |-> cas, services |-> svcs]
    /\ lastCall = NoCall
    /\ ncalls = 0
    /\ panicked = FALSE
    /\ StoreIdle
    /\ OrchIdle
    /\ FnIdle
    /\ WatchIdle
    /\ StopIdle
    /\ AgentIdle
    /\ ReconcileIdle

NextIsolated ==
    \/ \E id \in IsolatedTaskIDs, st \in {"ASSIGNED", "RUNNING"} :
          AddOrUpdateTask(id, st, "RUNNING")
    \/ \E id \in IsolatedTaskIDs : RemoveTask(id)
    \/ Message

SpecIsolated == InitIsolated /\ [][NextIsolated]_vars

\* The secret, config and certificate dependencies of a task of the catalogue.
DependenciesOf(id) ==
    LET spec == TaskSpecOf(id)
    IN  {Key("SECRET", spec.Secrets[i]) : i \in DOMAIN spec.Secrets}
        \cup {Key("CONFIG", spec.Configs[i]) : i \in DOMAIN spec.Configs}
        \cup {Key(spec.ResourceReferences[i].ResourceType, spec.ResourceReferences[i].ResourceID) :
                i \in {j \in DOMAIN spec.ResourceReferences :
                         spec.ResourceReferences[j].ResourceType \in {"SECRET", "CONFIG"}}}
        \cup {Key("CONFIG", CertConfigID(id, spec.CertificateIssuances[i], part)) :
                i \in DOMAIN spec.CertificateIssuances, part \in {"ca", "key", "cert"}}

\* The dependency can be materialized from the store.
Materializable(st, k) ==
    IF k.objType = "SECRET" THEN secret(st, k.id).ok
    ELSE IF k.id \in ConfigIDs THEN k.id \in st.configs
    ELSE \E ca \in DOMAIN st.cas : st.cas[ca].Valid

\* The call just made was addOrUpdateTask of task id, new to the set, with a
\* dependency that cannot be materialized.
AddedWithFailure(id) ==
    /\ lastCall'.op = "addOrUpdateTask" /\ ncalls' = ncalls + 1 /\ lastCall'.id = id
    /\ id \notin DOMAIN tasksMap
    /\ \E k \in DependenciesOf(id) : ~Materializable(rstore, k)

\* The call wrote an Update for each dependency it is the first to use and
\* that can be materialized, and nothing for the ones that cannot.
WroteMaterializable(id) ==
    \A k \in DependenciesOf(id) :
        /\ (Users(tasksUsingDependency, k) = {} /\ Materializable(rstore, k))
           => k \in SeqToSet(lastCall'.updates) /\ HasUpdate(changes', k)
        /\ ~Materializable(rstore, k)
           => k \notin SeqToSet(lastCall'.updates) \cup SeqToSet(lastCall'.removes)

\* C20: addOrUpdateTask of a new task in a state between Assigned and Running,
\* some of whose dependencies cannot be materialized, returns true, stores the
\* task, writes the TASK Update and the Updates of the dependencies that can
\* be materialized, and writes nothing for those that cannot.
C20_FailuresIsolated ==
    [][\A id \in IsolatedTaskIDs :
         AddedWithFailure(id)
         => /\ lastCall'.ret = "true"
            /\ id \in DOMAIN tasksMap'
            /\ HasUpdate(changes', Key("TASK", id))
            /\ WroteMaterializable(id)]_vars

----------------------------------------------------------------------------
\* ---- Static orchestrator: further properties ----

\* C21: every service in the orchestrator's services index is a static service
\* pinned to a node (IsRelatedService holds), and no task in the store has an
\* empty NodeID.
C21_TracksRelatedOnly ==
    /\ \A id \in DOMAIN services : IsRelatedService(services[id])
    /\ \A id \in DOMAIN storeTasks : storeTasks[id].NodeID # ""

\* The control API creates the default cluster object.
EnvCreateCluster ==
    /\ storeCluster = NilCluster
    /\ storeCluster' = ClusterObject(1)
    /\ Written(Ev("CreateCluster", ClusterObject(1)))
    /\ UNCHANGED <<storeServices, storeTasks, storeNodes, deletedServices>>

NextCluster ==
    \/ NextOrch
    \/ EnvCreateCluster

SpecCluster == InitOrch /\ [][NextCluster]_vars

\* C22: when no default cluster exists as Run starts, Run enters its loop with
\* cluster = nil; and once Run has handled a creation or update event of the
\* cluster, o.cluster is the cluster of that event.
C22_ClusterPickedUp ==
    [][/\ (pc = "cluster" /\ pc' = "services" /\ storeCluster = NilCluster) => cluster' = NilCluster
       /\ (/\ pc = "recv" /\ pc' = "tick" /\ watch # <<>>
           /\ Head(watch).kind \in {"CreateCluster", "UpdateCluster"})
          => cluster' = Head(watch).obj]_vars

----------------------------------------------------------------------------
\* ---- orchestrator.TasksByTimestamp ----

\* A *types.Timestamp: nil, or seconds and nanoseconds.
NilTimestamp == [Set |-> FALSE, Seconds |-> 0, Nanos |-> 0]

Timestamps ==
    {NilTimestamp} \cup {[Set |-> TRUE, Seconds |-> s, Nanos |-> n] : s \in {1, 2}, n \in {1, 2}}

\* The comparison at the end of Less: nil first, then seconds, then nanos.
TimestampBefore(iTimestamp, jTimestamp) ==
    IF ~iTimestamp.Set THEN TRUE
    ELSE IF ~jTimestamp.Set THEN FALSE
    ELSE IF iTimestamp.Seconds < jTimestamp.Seconds THEN TRUE
    ELSE IF iTimestamp.Seconds > jTimestamp.Seconds THEN FALSE
    ELSE iTimestamp.Nanos < jTimestamp.Nanos

\* TasksByTimestamp.Less on the status of t[i] and t[j]. The second branch
\* assigns iTimestamp, as the source does.
Less(ti, tj) ==
    LET i1 == IF ti.AppliedAt.Set THEN ti.AppliedAt ELSE ti.Timestamp
        jTimestamp == tj.Timestamp
        iTimestamp == IF tj.AppliedAt.Set THEN tj.AppliedAt ELSE i1
    IN  TimestampBefore(iTimestamp, jTimestamp)

InitLess ==
    /\ \E ti, tj \in [Timestamp : Timestamps, AppliedAt : Timestamps] :
          pin = [fn |-> "Less", ti |-> ti, tj |-> tj]
    /\ pout = [done |-> FALSE]
    /\ AllIdle

CallLess ==
    /\ pin.fn = "Less" /\ ~pout.done
    /\ pout' = [done |-> TRUE, less |-> Less(pin.ti, pin.tj)]
    /\ UNCHANGED <<pin, avars, svars, ovars, wvars, pvars, gvars>>

NextLess == CallLess

SpecLess == InitLess /\ [][NextLess]_vars

\* Status.AppliedAt if set, otherwise Status.Timestamp.
EffectiveTimestamp(t) == IF t.AppliedAt.Set THEN t.AppliedAt ELSE t.Timestamp

\* C23: Less(i, j) compares the effective timestamps of the two tasks, each
\* its AppliedAt if set and otherwise its Timestamp: an absent one first, then
\* ascending by seconds, then by nanoseconds.
C23_LessByEffectiveTimestamp ==
    (pin.fn = "Less" /\ pout.done)
    => (pout.less <=> TimestampBefore(EffectiveTimestamp(pin.ti), EffectiveTimestamp(pin.tj)))

----------------------------------------------------------------------------
\* ---- Assignment engine: admission, update and removal of tasks ----

\* A session with two tasks sharing secret x and config c, which both exist
\* in the store; the tasks are seen in every input state, below Assigned
\* included, and with either desired state.
NextTasks ==
    \/ \E id \in AssignTaskIDs, st \in InputStates, ds \in InputDesired :
          AddOrUpdateTask(id, st, ds)
    \/ \E id \in AssignTaskIDs : RemoveTask(id)
    \/ Message

SpecTasks == InitShared /\ [][NextTasks]_vars

\* addOrUpdateTask applied to the current assignment set.
AddResult(id, st, ds) ==
    addOrUpdateTask(tasksMap, tasksUsingDependency, changes, rstore, AssignTask(id, st, ds))

\* C24: addOrUpdateTask called with a task whose status state is below
\* Assigned returns false and leaves tasksMap, tasksUsingDependency and
\* changes as they were; so every task in tasksMap is in state Assigned or
\* higher after any sequence of calls.
C24_Admission ==
    /\ \A id \in DOMAIN tasksMap : ~StateLT(tasksMap[id].Status.State, "ASSIGNED")
    /\ \A id \in AssignTaskIDs, ds \in InputDesired :
         \A st \in {s \in InputStates : StateLT(s, "ASSIGNED")} :
            LET r == AddResult(id, st, ds)
            IN  /\ r.ret = "false"
                /\ r.tasksMap = tasksMap
                /\ r.tud = tasksUsingDependency
                /\ r.changes = changes

\* A task was refused (it is not in tasksMap after an addOrUpdateTask that
\* returned false) while the set held another task and changes not yet sent.
C24_Witness ==
    /\ lastCall.op = "addOrUpdateTask"
    /\ lastCall.ret = "false"
    /\ lastCall.id \notin DOMAIN tasksMap
    /\ tasksMap # EmptyMap
    /\ changes # EmptyMap
\* The dispatcher may call addOrUpdateTask with task id in status state st:
\* the guard of AddOrUpdateTask.
MayAdd(id, st) ==
    /\ ~panicked
    /\ (id \in DOMAIN tasksMap /\ ~StateLT(st, "ASSIGNED"))
       => StateLE(tasksMap[id].Status.State, st)

\* The call with result r left the entry of key k in the changes as it was.
ChangeKept(r, k) ==
    /\ (k \in DOMAIN r.changes) = (k \in DOMAIN changes)
    /\ k \in DOMAIN changes => r.changes[k] = changes[k]

\* C25: an admitted addOrUpdateTask of a task that is in tasksMap, is
\* TasksEqualStable to the stored one and is above Assigned replaces the
\* stored task and writes no TASK change; above Running it releases the
\* task's dependencies and returns true exactly when a dependency REMOVE was
\* written, otherwise it returns false. Every other admitted call stores the
\* task, writes a TASK Update and returns true.
C25_UpdateOfKnownTask ==
    \A id \in TaskIDs, st \in InputStates, ds \in InputDesired :
       (MayAdd(id, st) /\ ~StateLT(st, "ASSIGNED"))
       => LET t == AssignTask(id, st, ds)
              r == AddResult(id, st, ds)
              taskKey == Key("TASK", id)
              stored == id \in DOMAIN r.tasksMap /\ r.tasksMap[id] = t
          IN  IF /\ id \in DOMAIN tasksMap
                 /\ TasksEqualStable(tasksMap[id], t)
                 /\ StateLT("ASSIGNED", st)
              THEN /\ stored
                   /\ ChangeKept(r, taskKey)
                   /\ r.updates = <<>>
                   /\ IF StateLT("RUNNING", st)
                      THEN /\ \A k \in DOMAIN r.tud : id \notin r.tud[k]
                           /\ r.ret = (IF Len(r.removes) > 0 THEN "true" ELSE "false")
                      ELSE /\ r.ret = "false"
                           /\ r.tud = tasksUsingDependency
                           /\ r.changes = changes
              ELSE /\ stored
                   /\ taskKey \in DOMAIN r.changes
                   /\ r.changes[taskKey] =
                         Change("Update", "TASK", id, FALSE, [kind |-> "task", task |-> t])
                   /\ r.ret = "true"
\* C26: addOrUpdateTask of a task that is not in tasksMap and is above
\* Running stores the task and writes its TASK Update, and nothing else:
\* tasksUsingDependency is unchanged and the call writes no SECRET or CONFIG
\* change.
C26_NewAboveRunning ==
    \A id \in AssignTaskIDs, ds \in InputDesired :
       \A st \in {s \in InputStates : StateLT("RUNNING", s)} :
          (MayAdd(id, st) /\ id \notin DOMAIN tasksMap)
          => LET t == AssignTask(id, st, ds)
                 r == AddResult(id, st, ds)
                 taskKey == Key("TASK", id)
             IN  /\ r.tasksMap = Put(tasksMap, id, t)
                 /\ r.changes = Put(changes, taskKey,
                                    Change("Update", "TASK", id, FALSE,
                                           [kind |-> "task", task |-> t]))
                 /\ r.tud = tasksUsingDependency
                 /\ r.updates = <<taskKey>>
                 /\ r.removes = <<>>

\* The second of two calls added a new task above Running, next to a task
\* whose dependencies are in use.
C26_Witness ==
    /\ ncalls = 2
    /\ lastCall.op = "addOrUpdateTask"
    /\ lastCall.id \in DOMAIN tasksMap
    /\ StateLT("RUNNING", tasksMap[lastCall.id].Status.State)
    /\ lastCall.updates = <<Key("TASK", lastCall.id)>>
    /\ \E other \in DOMAIN tasksMap \ {lastCall.id} :
          /\ StateLE(tasksMap[other].Status.State, "RUNNING")
          /\ \A k \in DOMAIN tasksUsingDependency : tasksUsingDependency[k] = {other}
    /\ tasksUsingDependency # EmptyMap
\* removeTask applied to the current assignment set: the dispatcher passes the
\* deleted task.
RemoveResult(id) ==
    removeTask(tasksMap, tasksUsingDependency, changes,
               IF id \in DOMAIN tasksMap THEN tasksMap[id]
               ELSE AssignTask(id, "ASSIGNED", "RUNNING"))

C28_PeerGroupSynthesis ==
    \A id \in {i \in TaskIDs : ServiceIDOf(i) # ""}, st \in {"ASSIGNED", "RUNNING"} :
       (/\ MayAdd(id, st)
        /\ id \notin DOMAIN tasksMap
        /\ ServiceIDOf(id) \in DOMAIN rstore.services
        /\ rstore.services[ServiceIDOf(id)].Static
        /\ HasFirstAddress(rstore.services[ServiceIDOf(id)]))
       => LET S == rstore.services[ServiceIDOf(id)]
              r == AddResult(id, st, "RUNNING")
              k == Key("CONFIG", PeerGroupConfigID(id))
              allocated == {p \in FindServicesByPeerGroup(rstore, S.PeerGroup).ids \ {S.ID} :
                              HasFirstAddress(rstore.services[p])}
          IN  /\ k \in DOMAIN r.changes
              /\ r.changes[k] =
                    Change("Update", "CONFIG", k.id, FALSE,
                           [kind |-> "peergroup",
                            selfName |-> S.Name,
                            selfAddr |-> deCIDR(S.Addresses[1]),
                            peers |-> {<<rstore.services[p].Name,
                                         deCIDR(rstore.services[p].Addresses[1])>> :
                                       p \in allocated}])
----------------------------------------------------------------------------
\* ---- Static orchestrator: the restart queue ----

\* C29: tickTasks hands a task to the restart supervisor only if the task is
\* queued and, in the store, still exists, has DesiredState at most Running
\* and its service still exists; restartTasks is empty after every tickTasks,
\* the one of the start-up included.
C29_RestartOnlyLive ==
    [][(pc \in {"starttick", "tick"} /\ pc' # pc)
       => /\ \A id \in SeqToSet(restarts') :
                /\ id \in restartTasks
                /\ id \in DOMAIN storeTasks
                /\ StateLE(storeTasks[id].DesiredState, "RUNNING")
                /\ storeTasks[id].ServiceID \in DOMAIN storeServices
          /\ restartTasks' = {}]_vars

\* tickTasks is about to run with a queued task that must not be restarted:
\* its desired state in the store has passed Running, or it is gone.
C29_Witness ==
    /\ pc = "tick"
    /\ \E id \in restartTasks :
          \/ id \notin DOMAIN storeTasks
          \/ StateLT("RUNNING", storeTasks[id].DesiredState)
\* C30: whenever the loop waits for the next event, restartTasks is empty:
\* the tickTasks that ends an iteration runs before the next event is taken,
\* and the iterations that skip it (an unrelated service event) queue nothing.
C30_QueueEmptyBetweenEvents ==
    pc = "recv" => restartTasks = {}

\* The loop waits with the next event at hand after an iteration that queued
\* a task and restarted it.
C30_Witness ==
    /\ pc = "recv"
    /\ watch # <<>>
    /\ Len(restarts) > 0
    /\ restartTasks = {}
----------------------------------------------------------------------------
\* ---- Static orchestrator: deletion, reconciliation and the indexes ----

\* The orchestrator has processed the DeleteService event of service id: the
\* service was deleted and its event is no longer in the queue.
DeleteProcessed(id) ==
    /\ id \in deletedServices
    /\ \A i \in DOMAIN watch :
          ~(watch[i].kind = "DeleteService" /\ watch[i].obj.ID = id)

\* The step is Run's handling of the DeleteService event at the head of the
\* queue.
DeleteServiceStep ==
    pc = "recv" /\ nwrites' = nwrites /\ watch # <<>> /\ Head(watch).kind = "DeleteService"

\* C31: handling DeleteService for a related service S marks every task of S
\* in the store for removal and takes S out of the services index and of every
\* servicesByNodeID set; for an unrelated service it changes nothing. Once the
\* event is processed S stays out of the indexes and the orchestrator creates
\* and restarts no task of S.
C31_ServiceDeletion ==
    [][/\ DeleteServiceStep
          => LET v == Head(watch).obj
             IN  IF IsRelatedService(v)
                 THEN /\ \A t \in TasksOf(storeTasks', v.ID) :
                             storeTasks'[t].DesiredState = "REMOVE"
                      /\ v.ID \notin DOMAIN services'
                      /\ \A n \in DOMAIN servicesByNodeID' : v.ID \notin servicesByNodeID'[n]
                 ELSE UNCHANGED <<storeServices, storeTasks, services, servicesByNodeID,
                                  restartTasks, restarts>>
       /\ \A id \in OrchServiceIDs :
             (DeleteProcessed(id) /\ id \notin DOMAIN services)
             => /\ id \notin DOMAIN services'
                /\ \A n \in DOMAIN servicesByNodeID' : id \notin servicesByNodeID'[n]
                /\ TasksOf(storeTasks', id) \subseteq TasksOf(storeTasks, id)
                /\ (pc = "tick" /\ pc' = "recv")
                   => \A t \in SeqToSet(restarts') : storeTasks[t].ServiceID # id]_vars

\* The DeleteService event of a tracked, pinned service was processed: its
\* task is marked for removal and the service is in no index.
C31_Witness ==
    /\ pc = "recv"
    /\ \E id \in OrchServiceIDs :
          /\ DeleteProcessed(id)
          /\ id \notin DOMAIN services
          /\ \E t \in TasksOf(storeTasks, id) :
                storeTasks[t].DesiredState = "REMOVE" /\ storeTasks[t].NodeID # ""

----------------------------------------------------------------------------
\* ---- Static orchestrator: writes committed while Run starts ----

\* C32: a task is added to the store for a service only when the store holds
\* no task of that service, and then exactly one; so the store never holds two
\* tasks of one service, also when the service is seen both in the initial
\* listing and as a queued create or update event.
C32_OneTaskPerService ==
    [][\A s \in OrchServiceIDs :
          /\ TasksOf(storeTasks', s) \ TasksOf(storeTasks, s) # {}
             => TasksOf(storeTasks, s) = {}
          /\ Cardinality(TasksOf(storeTasks', s)) <= 1]_vars

\* Start-up has created the task of a service it found in its listing, and
\* the create event of that service is next in the queue.
C32_Witness ==
    /\ pc = "recv"
    /\ watch # <<>>
    /\ Head(watch).kind = "CreateService"
    /\ Head(watch).obj.ID \in DOMAIN services
    /\ IsRelatedService(Head(watch).obj)
    /\ Cardinality(TasksOf(storeTasks, Head(watch).obj.ID)) = 1
\* C33: handling DeleteNode(N) deletes only tasks bound to N that belong to a
\* tracked service and updates only services recorded as pinned to N; every
\* other task and service of the store is left as it was, and none is added.
C33_DeleteNodeFrame ==
    [][/\ (pc = "recv" /\ pc' = "nodebatch")
          => /\ UNCHANGED <<storeTasks, storeServices>>
             /\ nodeTasks'.node = Head(watch).obj.ID
             /\ \A t \in DOMAIN nodeTasks'.tasks :
                   t \in DOMAIN storeTasks /\ storeTasks[t].NodeID = nodeTasks'.node
       /\ (pc = "nodebatch" /\ pc' = "nodeupdate")
          => /\ DOMAIN storeTasks' \subseteq DOMAIN storeTasks
             /\ \A t \in DOMAIN storeTasks :
                   IF t \in DOMAIN storeTasks'
                   THEN storeTasks'[t] = storeTasks[t]
                   ELSE /\ storeTasks[t].NodeID = nodeTasks.node
                        /\ storeTasks[t].ServiceID \in DOMAIN services
             /\ storeServices' = storeServices
       /\ (pc = "nodeupdate" /\ pc' = "tick")
          => LET pinned == IF nodeTasks.node \in DOMAIN servicesByNodeID
                           THEN servicesByNodeID[nodeTasks.node] ELSE {}
             IN  /\ storeTasks' = storeTasks
                 /\ DOMAIN storeServices' = DOMAIN storeServices
                 /\ \A x \in DOMAIN storeServices :
                       storeServices'[x] # storeServices[x] => x \in pinned]_vars

\* DeleteNode was handled: a service pinned to the removed node is marked and
\* has lost its task, while a task that is not bound to that node or belongs
\* to an untracked service is still in the store.
C33_Witness ==
    /\ pc = "tick"
    /\ \E s \in DOMAIN storeServices :
          /\ storeServices[s].Message = "Static Node Removed"
          /\ storeServices[s].NodeID = nodeTasks.node
          /\ storeServices[s].NodeID \notin storeNodes
          /\ TasksOf(storeTasks, s) = {}
          /\ \E t \in DOMAIN storeTasks :
                \/ storeTasks[t].NodeID # storeServices[s].NodeID
                \/ storeTasks[t].ServiceID \notin DOMAIN services
----------------------------------------------------------------------------
\* ---- store: FindCAs and FindPeerGroups ----

\* The selector types of the store (By); Or carries its parts.
SelectorKinds ==
    {"byAll", "byID", "byIDPrefix", "byName", "byNamePrefix", "byCustom", "byCustomPrefix",
     "byServiceID", "byNodeID", "byRuntime", "byDesiredState"}

By(kind, arg) == [kind |-> kind, arg |-> arg, bys |-> <<>>]

Or(bys) == [kind |-> "orCombinator", arg |-> <<>>, bys |-> bys]

\* The selectors a caller passes: every type with a value, and Or of one or
\* two of them.
LeafSelectors == {By(k, arg) : k \in SelectorKinds, arg \in {<<"a">>, <<"c">>}}

Selectors ==
    LeafSelectors
    \cup {Or(<<b>>) : b \in LeafSelectors}
    \cup {Or(<<b1, b2>>) : b1 \in LeafSelectors, b2 \in LeafSelectors}

\* The tables that are searched: objects by id, with their names.
FindTables ==
    { EmptyMap,
      [id \in {<<"c", "1">>, <<"a", "2">>} |->
          [ID |-> id, Name |-> IF id = <<"c", "1">> THEN <<"A">> ELSE <<"c", "b">>]] }

\* Mutant of checkTypeFindCAs: ByNodeID is accepted too.
checkTypeFindCAs_AllowNodeID ==
    [k \in SelectorKinds \cup {"orCombinator"} |->
        IF k \in {"byName", "byNamePrefix", "byIDPrefix", "byCustom", "byCustomPrefix",
                  "byNodeID"}
        THEN "nil" ELSE "ErrInvalidFindBy"]

\* FindCAs, the checkType closure: the error for each selector type.
checkTypeFindCAs ==
    [k \in SelectorKinds \cup {"orCombinator"} |->
        IF k \in {"byName", "byNamePrefix", "byIDPrefix", "byCustom", "byCustomPrefix"}
        THEN "nil" ELSE "ErrInvalidFindBy"]

\* FindPeerGroups, the checkType closure.
checkTypeFindPeerGroups ==
    [k \in SelectorKinds \cup {"orCombinator"} |->
        IF k \in {"byName", "byNamePrefix", "byIDPrefix", "byCustom", "byCustomPrefix"}
        THEN "nil" ELSE "ErrInvalidFindBy"]

\* The objects of the table a selector picks. The tables carry no custom
\* index and none of the task indexes.
Selected(table, by) ==
    {id \in DOMAIN table :
        CASE by.kind = "byAll" -> TRUE
          [] by.kind = "byID" -> id = by.arg
          [] by.kind = "byIDPrefix" -> IsPrefix(by.arg, id)
          [] by.kind = "byName" -> ToLower(table[id].Name) = ToLower(by.arg)
          [] by.kind = "byNamePrefix" -> IsPrefix(ToLower(by.arg), ToLower(table[id].Name))
          [] OTHER -> FALSE}

\* tx.find: All and Or are generic selectors, every other selector is first
\* passed to checkType; Or fails when one of its parts fails. Nothing is
\* appended to the result when the selector is refused.
RECURSIVE txFind(_, _, _)
txFind(table, by, checkType) ==
    IF by.kind = "byAll" THEN [err |-> "nil", ids |-> Selected(table, by)]
    ELSE IF by.kind = "orCombinator"
    THEN LET parts == [i \in DOMAIN by.bys |-> txFind(table, by.bys[i], checkType)]
         IN  IF \E i \in DOMAIN parts : parts[i].err # "nil"
             THEN [err |-> "ErrInvalidFindBy", ids |-> {}]
             ELSE [err |-> "nil", ids |-> UNION {parts[i].ids : i \in DOMAIN parts}]
    ELSE IF checkType[by.kind] # "nil" THEN [err |-> checkType[by.kind], ids |-> {}]
    ELSE [err |-> "nil", ids |-> Selected(table, by)]

\* store.FindCAs
FindCAs(table, by) ==
    LET r == txFind(table, by, checkTypeFindCAs)
    IN  [list |-> {table[id] : id \in r.ids}, err |-> r.err]

\* store.FindPeerGroups
FindPeerGroups(table, by) ==
    LET r == txFind(table, by, checkTypeFindPeerGroups)
    IN  [list |-> {table[id] : id \in r.ids}, err |-> r.err]

InitFind ==
    /\ \E fn \in {"FindCAs", "FindPeerGroups"}, table \in FindTables, by \in Selectors :
          pin = [fn |-> fn, table |-> table, by |-> by]
    /\ pout = [done |-> FALSE]
    /\ AllIdle

CallFindCAs ==
    /\ pin.fn = "FindCAs" /\ ~pout.done
    /\ pout' = [done |-> TRUE, res |-> FindCAs(pin.table, pin.by)]
    /\ UNCHANGED <<pin, avars, svars, ovars, wvars, pvars, gvars>>

CallFindPeerGroups ==
    /\ pin.fn = "FindPeerGroups" /\ ~pout.done
    /\ pout' = [done |-> TRUE, res |-> FindPeerGroups(pin.table, pin.by)]
    /\ UNCHANGED <<pin, avars, svars, ovars, wvars, pvars, gvars>>

NextFind == CallFindCAs \/ CallFindPeerGroups

SpecFind == InitFind /\ [][NextFind]_vars

\* The selector is All, ByName, ByNamePrefix, ByIDPrefix, ByCustom,
\* ByCustomPrefix, or an Or of such selectors.
AcceptedSelector(by) ==
    LET leafOk(b) == b.kind \in {"byAll", "byName", "byNamePrefix", "byIDPrefix",
                                 "byCustom", "byCustomPrefix"}
    IN  IF by.kind = "orCombinator"
        THEN \A i \in DOMAIN by.bys : leafOk(by.bys[i])
        ELSE leafOk(by)

\* C34: FindCAs and FindPeerGroups return without error for the selectors
\* All, ByName, ByNamePrefix, ByIDPrefix, ByCustom, ByCustomPrefix and Or of
\* these; for every other selector they return ErrInvalidFindBy and an empty
\* list.
C34_FindBy ==
    (pin.fn \in {"FindCAs", "FindPeerGroups"} /\ pout.done)
    => IF AcceptedSelector(pin.by)
       THEN pout.res.err = "nil"
       ELSE pout.res.err = "ErrInvalidFindBy" /\ pout.res.list = {}

\* FindCAs refused ByNodeID on a table that holds objects.
C34_Witness ==
    /\ pin.fn = "FindCAs" /\ pout.done
    /\ pin.by.kind = "byNodeID"
    /\ pin.table # EmptyMap
    /\ pout.res.err = "ErrInvalidFindBy"
    /\ pout.res.list = {}
----------------------------------------------------------------------------
\* ---- Orchestrator.Stop: one call, events arriving without end ----

\* Events the watcher holds at most before the writers are held back.
MaxQueue == 2

\* The caller of Stop.
StopCaller == "a"

\* The dispatcher records a node's heartbeat or status: the write commits and
\* its EventUpdateNode reaches the watcher, any number of times.
EnvUpdateNode(nodeID) ==
    /\ pc \notin {"init", "done"}
    /\ nodeID \in storeNodes
    /\ Len(watch) < MaxQueue
    /\ watch' = Append(watch, Ev("UpdateNode", [ID |-> nodeID]))
    /\ UNCHANGED <<storeServices, storeTasks, storeNodes, storeCluster, deletedServices, pc,
                   services, servicesByNodeID, restartTasks, cluster, nextID, nwrites,
                   restarts, nonOrch>>

NextStopOnce ==
    \/ RunStep
    \/ StopWriters
    \/ \E nodeID \in OrchNodeIDs : EnvUpdateNode(nodeID)
    \/ StopClose(StopCaller)
    \/ StopWait(StopCaller)

\* The goroutines of Run and of Stop are scheduled whenever they can step; a
\* select with several ready cases chooses among them at random, so a case
\* that is ready again and again is chosen in the end.
SpecStopOnce ==
    /\ InitOrch
    /\ [][NextStopOnce]_vars
    /\ WF_vars(RunStep)
    /\ SF_vars(RunStopped)
    /\ WF_vars(StopWait(StopCaller))

\* C35: once Stop has closed stopChan the Run loop returns in the end, also
\* when events keep arriving; Stop returns in the end, and the step in which
\* it stops waiting and cancels the supervisors happens only after Run has
\* returned and closed doneChan; Run closes doneChan as it returns, and it
\* leaves its loop only on the stop signal.
C35_StopWaitsForLoop ==
    /\ (stopChan = "closed") ~> (pc = "done" /\ doneChan = "closed")
    /\ (stopPc[StopCaller] = "wait") ~> (stopPc[StopCaller] = "done")
    /\ [][stopPc'[StopCaller] # stopPc[StopCaller] /\ stopPc'[StopCaller] = "done"
          => pc = "done" /\ doneChan = "closed"]_vars
    /\ [][pc' = "done" /\ pc # "done"
          => /\ doneChan' = "closed"
             /\ pc = "recv" => stopChan = "closed"]_vars

\* C35 witness: Stop has returned after a loop that handled events of other
\* writers and left with events still queued.
C35_Witness ==
    /\ stopPc[StopCaller] = "done" /\ pc = "done" /\ doneChan = "closed"
    /\ nwrites > 0
    /\ watch # <<>>

----------------------------------------------------------------------------
\* ---- Assignment engine: what the agent is told across messages ----

\* The dependency keys a message carries with the given action.
DepsIn(msg, action) ==
    {Key(c.Type, c.ID) : c \in {e \in DOMAIN msg : e.Action = action /\ e.Type # "TASK"}}

\* The dispatcher calls message() and sends the result; the agent stores the
\* dependencies of the Update changes and drops those of the REMOVE changes.
SendMessage ==
    /\ ~panicked /\ ncalls < MaxCalls
    /\ LET msg == message(changes)
       IN  /\ lastCall' = [NoCall EXCEPT !.op = "message", !.msg = msg]
           /\ agentDeps' = (agentDeps \ DepsIn(msg, "Remove")) \cup DepsIn(msg, "Update")
    /\ changes' = EmptyMap
    /\ ncalls' = ncalls + 1
    /\ UNCHANGED <<tasksMap, tasksUsingDependency, rstore, panicked, reconcileView, nodeTasks>>
    /\ UNCHANGED <<svars, ovars, fvars, wvars, pvars>>

\* A session on a store that may lack secret x, config c or ca1; the tasks
\* are seen in the states Assigned, Running and Failed, and every message is
\* sent to the agent.
NextSent ==
    \/ \E id \in IsolatedTaskIDs, st \in {"ASSIGNED", "RUNNING", "FAILED"} :
          AddOrUpdateTask(id, st, "RUNNING")
    \/ \E id \in IsolatedTaskIDs : RemoveTask(id)
    \/ SendMessage

SpecSent == InitIsolated /\ [][NextSent]_vars

\* C36: a message carries a REMOVE for a SECRET or CONFIG key only if an
\* earlier message gave the agent that key and no message since has removed
\* it.
C36_RemoveOnlyGiven ==
    [][(ncalls' = ncalls + 1 /\ lastCall'.op = "message")
       => DepsIn(lastCall'.msg, "Remove") \subseteq agentDeps]_vars

----------------------------------------------------------------------------
\* ---- Assignment engine: the pending changes and the state of the set ----

\* C37: after any sequence of calls, a TASK entry of changes is an Update
\* exactly when the task is in tasksMap and a Remove exactly when it is not;
\* a SECRET or CONFIG entry is an Update only if some task uses the key and a
\* Remove only if no task uses it, so a key released and used again before
\* message() is an Update.
C37_DeltaAgrees ==
    ~panicked
    => \A k \in DOMAIN changes :
          IF k.objType = "TASK"
          THEN /\ changes[k].Action = "Update" <=> k.id \in DOMAIN tasksMap
               /\ changes[k].Action = "Remove" <=> k.id \notin DOMAIN tasksMap
          ELSE /\ changes[k].Action = "Update" => Users(tasksUsingDependency, k) # {}
               /\ changes[k].Action = "Remove" => Users(tasksUsingDependency, k) = {}

----------------------------------------------------------------------------
\* ---- Static orchestrator: reconcileServices, its View and its Batch ----

NextRace ==
    \/ StartWatch
    \/ StartCluster
    \/ StartServices
    \/ StartTasks
    \/ ReconcileView
    \/ ReconcileWrite
    \/ HandleService
    \/ HandleDeleteService
    \/ HandleUpdateTask
    \/ HandleOtherEvent
    \/ TickTasks
    \/ \E id \in OrchServiceIDs, nodeID \in OrchNodeIDs \cup {""} :
         EnvCreateService(id, TRUE, nodeID)
    \/ \E id \in OrchServiceIDs, nodeID \in OrchNodeIDs : EnvPinService(id, nodeID)
    \/ \E id \in OrchServiceIDs : EnvDeleteService(id)
    \/ \E id \in DOMAIN storeTasks, state \in ReportedStates : EnvUpdateTaskStatus(id, state)

SpecRace == InitOrch /\ [][NextRace]_vars

\* C38: every task created refers to a service that is in the store when the
\* task is committed; the Batch of a reconcileServices whose service was
\* deleted after the View creates no task for it.
C38_NoTaskForDeletedService ==
    [][/\ \A t \in DOMAIN storeTasks' \ DOMAIN storeTasks :
             storeTasks'[t].ServiceID \in DOMAIN storeServices'
       /\ pc = "batch"
          => \A i \in 1..Len(reconcileView.ids) :
                reconcileView.ids[i] \notin DOMAIN storeServices
                => TasksOf(storeTasks', reconcileView.ids[i])
                      \subseteq TasksOf(storeTasks, reconcileView.ids[i])]_vars

\* C38 witness: the View saw service s in the store without tasks, s was
\* deleted before the Batch, and the Batch has run and created nothing.
C38_Witness ==
    /\ pc = "tick"
    /\ reconcileView.ids # <<>>
    /\ LET s == reconcileView.ids[1]
       IN  /\ s \in DOMAIN reconcileView.services
           /\ TasksOf(reconcileView.tasks, s) = {}
           /\ s \in DOMAIN services
           /\ s \notin DOMAIN storeServices
           /\ TasksOf(storeTasks, s) = {}

----------------------------------------------------------------------------
\* ---- Assignment engine: tasks of static services not yet allocated ----

\* C39: addOrUpdateTask of a new task of a static service completes without
\* fault whatever the allocation state of the services of its peer group, and
\* the task is stored with its TASK Update.
C39_StaticTaskNoFault ==
    \A id \in {i \in TaskIDs : ServiceIDOf(i) # ""}, st \in {"ASSIGNED", "RUNNING"} :
       (/\ MayAdd(id, st)
        /\ id \notin DOMAIN tasksMap
        /\ ServiceIDOf(id) \in DOMAIN rstore.services
        /\ rstore.services[ServiceIDOf(id)].Static)
       => LET r == AddResult(id, st, "RUNNING")
          IN  /\ ~r.panicked
              /\ id \in DOMAIN r.tasksMap
              /\ HasUpdate(r.changes, Key("TASK", id))

----------------------------------------------------------------------------
\* ---- Static orchestrator: the services index and the node index ----

\* C40: in every state, service id s is in servicesByNodeID[n] exactly when s
\* is in the services index and the service recorded there has node id n.
C40_IndexesConsistent ==
    \A s \in OrchServiceIDs, n \in OrchNodeIDs \cup {""} :
       (n \in DOMAIN servicesByNodeID /\ s \in servicesByNodeID[n])
       <=> (s \in DOMAIN services /\ services[s].NodeID = n)

====
